---- MODULE Spec2Model ----
(***************************************************************************)
(* Authentication and access control of the zupp.app backend:              *)
(*   - authMiddleware / requireRole      (src/src/middleware/auth.ts)      *)
(*   - apiKeyMiddleware                  (src/src/middleware/apiKey.ts)    *)
(*   - login                             (src/src/routes/products.ts)      *)
(* The relational store is two tables (users, api_keys).  Every awaited    *)
(* store call is a step of its own, so other requests and other writers of *)
(* the store interleave exactly where the code suspends.                   *)
(*                                                                         *)
(* Nullable values (a missing header, a NULL column, an unset context key, *)
(* the rows of a SELECT ... LIMIT 1) are sequences of length 0 or 1.       *)
(***************************************************************************)
EXTENDS Integers, Sequences, FiniteSets, TLC

\* ---------------------------------------------------------------- bounds
\* the clock runs over 0..MaxTime
MaxTime == 2
\* number of session tokens issued in one behaviour
MaxTokens == 1
\* the request-handling tasks
Reqs == {1}
Null == <<>>

\* ------------------------------------------------------- schema (users)
Roles == {"admin", "customer", "staff"}
AdminId == 1
AdminEmail == "admin@zupp.store"
AdminPassword == "admin123"
Passwords == {AdminPassword, "wrong"}
Emails == {AdminEmail, "nobody@x.com"}

\* ------------------------------------------- AuthService (lib/auth)
\* lifetime of a token, in clock ticks
TokenTTL == 1

\* hashPassword: one-way, equal plaintexts give verifying hashes
HashPassword(p) == <<"hash", p>>

\* comparePassword(plain, hashed)
ComparePassword(p, h) == h = <<"hash", p>>

\* the MAC over a claim set under the server-held secret
Mac(claims) == <<"mac", claims>>

\* generateToken(user): claims {userId, email, role, iat, exp}, signed
GenerateToken(user, t) ==
  LET claims == [userId |-> user.id, email |-> user.email, role |-> user.role,
                 iat |-> t, exp |-> t + TokenTTL]
  IN  [claims |-> claims, mac |-> Mac(claims)]

\* verifyToken(token): the claims, or throws (TokenInvalid / TokenExpired)
VerifyToken(tok, t) ==
  IF tok.mac # Mac(tok.claims) THEN [ok |-> FALSE, err |-> "TokenInvalid", payload |-> Null]
  ELSE IF t >= tok.claims.exp THEN [ok |-> FALSE, err |-> "TokenExpired", payload |-> Null]
  ELSE [ok |-> TRUE, err |-> "", payload |-> <<tok.claims>>]

\* extractTokenFromHeader(header): "Bearer <token>" gives the token.
\* A header value is the sequence of its space-separated parts.
ExtractTokenFromHeader(h) ==
  IF h # Null /\ Len(h[1]) = 2 /\ h[1][1] = "Bearer" THEN <<h[1][2]>> ELSE Null

\* ------------------------------------------------------------ responses
\* c.json(body, status)
Json(body, status) == [status |-> status, body |-> body]

\* --------------------------------------------------------------- state
VARIABLES
  now,      \* the clock read by new Date() and by the token service
  users,    \* table users: a set of rows
  apiKeys,  \* table api_keys: a set of rows
  tokens,   \* the session tokens issued so far
  req,      \* per request task: position, request, locals, context, response
  products,   \* table products: a set of rows
  categories  \* table categories: a set of rows

vars == <<now, users, apiKeys, tokens, req, products, categories>>

\* the seeded administrator (createAdminUser)
AdminUser ==
  [id |-> AdminId, email |-> AdminEmail, password |-> HashPassword(AdminPassword),
   role |-> "admin", isActive |-> TRUE, lastLoginAt |-> Null]

\* middleware chains of the routers; the last stage is the route handler
Routes ==
  { <<"auth", "handler">>,            \* auth.get('/me'), auth.post('/refresh')
    <<"auth", "staff", "handler">>,   \* apiKeysRouter, adminRouter, productsRouter /admin/*
    <<"auth", "admin", "handler">>,   \* requireAdmin behind the session gate
    <<"staff", "handler">>,           \* the role gate mounted on its own
    <<"admin", "handler">>,
    <<"apiKey", "handler">> }         \* publicRouter

\* requireAdmin / requireStaff
GateRoles(g) == IF g = "admin" THEN {"admin"} ELSE {"admin", "staff"}

\* a request task that holds no request
IdleReq ==
  [pc |-> "idle", route |-> <<>>, stage |-> 0,
   authz |-> Null, xkey |-> Null, qkey |-> Null,
   param |-> Null, email |-> Null, password |-> Null,
   method |-> "", path |-> <<>>, data |-> Null,
   payload |-> Null, rows |-> Null, keyRecord |-> Null, touch |-> Null,
   stamp |-> Null,
   user |-> Null, apiKey |-> Null,
   status |-> 0, body |-> <<>>,
   presented |-> Null, evalAt |-> Null,
   trace |-> <<>>, cause |-> "", inact |-> FALSE]

\* the handler a chain ends in
Endpoint(route) == route[Len(route)]

\* handlers that read c.req.param('id') / a validated body with credentials
ParamEndpoints == {"regenerate"}

BodyEndpoints == {"login", "register"}

\* position of the task when stage i of its chain starts
PcOf(route, i) ==
  IF route[i] = "auth" THEN "auth"
  ELSE IF route[i] = "apiKey" THEN "key"
  ELSE IF route[i] = "handler" THEN "handler"
  ELSE IF route[i] \in {"admin", "staff"} THEN "gate"
  ELSE route[i]

Occurs(x, seq) == \E i \in 1..Len(seq) : seq[i] = x

\* a response ends the request
Respond(q, resp, cause, steps) ==
  [q EXCEPT !.pc = "done", !.status = resp.status, !.body = resp.body,
            !.cause = cause, !.trace = q.trace \o steps]

\* await next(): the following stage of the chain starts
CallNext(q, steps) ==
  [q EXCEPT !.stage = q.stage + 1, !.pc = PcOf(q.route, q.stage + 1),
            !.trace = q.trace \o steps]

\* ------------------------------------------------------------ the store
\* db.select().from(users).where(eq(users.id, id)).limit(1)
SelectUserById(id) ==
  LET m == {u \in users : u.id = id}
  IN  IF m = {} THEN <<>> ELSE <<CHOOSE u \in m : TRUE>>

\* db.select().from(users).where(eq(users.email, email)).limit(1)
SelectUserByEmail(email) ==
  LET m == {u \in users : u.email = email}
  IN  IF m = {} THEN <<>> ELSE <<CHOOSE u \in m : TRUE>>

\* the lookup matches on the secret alone
SelectKeyAnyState(k) ==
  LET m == {a \in apiKeys : a.key = k}
  IN  IF m = {} THEN <<>> ELSE <<CHOOSE a \in m : TRUE>>

\* db.select().from(apiKeys).where(and(eq(key, k), eq(isActive, true)))
SelectActiveKey(k) ==
  LET m == {a \in apiKeys : a.key = k /\ a.isActive = TRUE}
  IN  IF m = {} THEN <<>> ELSE <<CHOOSE a \in m : TRUE>>

\* the update has no where clause
TouchEveryKey(id, t) ==
  {[a EXCEPT !.lastUsedAt = <<t>>] : a \in apiKeys}

\* db.update(apiKeys).set({lastUsedAt: t}).where(eq(apiKeys.id, id))
TouchKey(id, t) ==
  {IF a.id = id THEN [a EXCEPT !.lastUsedAt = <<t>>] ELSE a : a \in apiKeys}

\* ------------------------------------------------------- authMiddleware
\* the catch clause answers with another status
AuthCatchForbidden == Json([error |-> "Invalid or expired token"], 403)

\* the catch clause of authMiddleware
AuthCatch == Json([error |-> "Invalid or expired token"], 401)

\* the claims are decoded and looked up although verification failed
AuthBeforeStoreLookupUnverified(q, t) ==
  LET token == ExtractTokenFromHeader(q.authz) IN
  IF token = Null
  THEN Respond(q, Json([error |-> "Authorization token required"], 401),
               "MissingToken", <<"extract">>)
  ELSE [q EXCEPT !.pc = "authSelect", !.payload = <<token[1].claims>>,
                 !.trace = q.trace \o <<"extract", "verify", "lookup">>]

\* synchronous part up to the first await: extract, verify, issue the lookup
AuthBeforeStore(q, t) ==
  LET token == ExtractTokenFromHeader(q.authz) IN
  IF token = Null
  THEN Respond(q, Json([error |-> "Authorization token required"], 401),
               "MissingToken", <<"extract">>)
  ELSE LET v == VerifyToken(token[1], t) IN
       IF ~v.ok
       THEN Respond(q, AuthCatch, v.err, <<"extract", "verify">>)
       ELSE [q EXCEPT !.pc = "authSelect", !.payload = v.payload,
                      !.trace = q.trace \o <<"extract", "verify", "lookup">>]

\* the active flag is not looked at
UserMissing(rows) == Len(rows) = 0

\* !user.length || !user[0].isActive
UserMissingOrInactive(rows) == Len(rows) = 0 \/ ~rows[1].isActive

\* the role is re-read from the store
AttachedUserStoredRole(payload, rows) ==
  [id |-> payload.userId, email |-> payload.email, role |-> rows[1].role]

\* the identity put into the context: c.set('user', {...})
AttachedUser(payload, rows) ==
  [id |-> payload.userId, email |-> payload.email, role |-> payload.role]

\* the identity is attached before the subject is checked
AuthAfterStoreEarlyAttach(q, rows) ==
  IF UserMissingOrInactive(rows)
  THEN Respond([q EXCEPT !.rows = rows,
                         !.user = <<AttachedUser(q.payload[1], rows)>>],
               Json([error |-> "User not found or inactive"], 401),
               IF Len(rows) = 0 THEN "SubjectNotFound" ELSE "SubjectInactive",
               IF Len(rows) = 0 THEN <<>> ELSE <<"active">>)
  ELSE CallNext([q EXCEPT !.rows = rows,
                          !.user = <<AttachedUser(q.payload[1], rows)>>],
                <<"active", "attach", "auth.next">>)

\* continuation once the lookup has answered with rows
AuthAfterStore(q, rows) ==
  IF UserMissingOrInactive(rows)
  THEN Respond([q EXCEPT !.rows = rows],
               Json([error |-> "User not found or inactive"], 401),
               IF Len(rows) = 0 THEN "SubjectNotFound" ELSE "SubjectInactive",
               IF Len(rows) = 0 THEN <<>> ELSE <<"active">>)
  ELSE CallNext([q EXCEPT !.rows = rows,
                          !.user = <<AttachedUser(q.payload[1], rows)>>],
                <<"active", "attach", "auth.next">>)

\* lines 17-24: runs until the store lookup is awaited
AuthMw(r) ==
  /\ req[r].pc = "auth"
  /\ req' = [req EXCEPT ![r] = AuthBeforeStore(req[r], now)]
  /\ UNCHANGED <<now, users, apiKeys, tokens, products, categories>>

\* lines 27-44: the lookup answers (or the store is unreachable and the
\* awaited promise rejects into the catch clause)
AuthSelect(r) ==
  /\ req[r].pc = "authSelect"
  /\ \E fails \in BOOLEAN :
       req' = [req EXCEPT ![r] =
                 IF fails
                 THEN Respond(req[r], AuthCatch, "StoreFailure", <<>>)
                 ELSE AuthAfterStore(req[r], SelectUserById(req[r].payload[1].userId))]
  /\ UNCHANGED <<now, users, apiKeys, tokens, products, categories>>

\* ---------------------------------------------------------- requireRole
\* the role is not compared with the allow-set
GateDecisionAnyRole(user, roles) ==
  IF user = Null THEN "unauthenticated" ELSE "pass"

\* a missing identity is treated as a missing permission
GateDecisionNoIdentityForbidden(user, roles) ==
  IF user = Null \/ user[1].role \notin roles THEN "forbidden" ELSE "pass"

\* if (!user) 401; if (!roles.includes(user.role)) 403
GateDecision(user, roles) ==
  IF user = Null THEN "unauthenticated"
  ELSE IF user[1].role \notin roles THEN "forbidden"
  ELSE "pass"

RoleGateStep(q, roles) ==
  LET d == GateDecision(q.user, roles) IN
  IF d = "unauthenticated"
  THEN Respond(q, Json([error |-> "Authentication required"], 401),
               "AuthenticationRequired", <<"gate">>)
  ELSE IF d = "forbidden"
  THEN Respond(q, Json([error |-> "Insufficient permissions"], 403),
               "InsufficientPermissions", <<"gate">>)
  ELSE CallNext(q, <<"gate", "gate.next">>)

RoleGate(r) ==
  /\ req[r].pc = "gate"
  /\ req' = [req EXCEPT ![r] = RoleGateStep(req[r], GateRoles(req[r].route[req[r].stage]))]
  /\ UNCHANGED <<now, users, apiKeys, tokens, products, categories>>

\* ----------------------------------------------------- apiKeyMiddleware
\* the catch clause of apiKeyMiddleware
KeyCatch == Json([error |-> "Authentication failed"], 500)

\* the query parameter is preferred to the header
PresentedKeyQueryFirst(xkey, qkey) ==
  IF qkey # Null /\ qkey[1] # "" THEN qkey ELSE xkey

\* c.req.header('X-API-Key') || c.req.query('api_key')
PresentedKey(xkey, qkey) ==
  IF xkey # Null /\ xkey[1] # "" THEN xkey ELSE qkey

\* !apiKey
KeyAbsent(k) == k = Null \/ k[1] = ""

\* the expiry time is never looked at
KeyNeverExpired(rec, t) == FALSE

\* keyRecord.expiresAt && new Date() > keyRecord.expiresAt
KeyExpired(rec, t) == rec.expiresAt # Null /\ t > rec.expiresAt[1]

\* lines 8-22: runs until the key lookup is awaited
KeyMw(r) ==
  /\ req[r].pc = "key"
  /\ LET q == req[r]
         k == PresentedKey(q.xkey, q.qkey)
     IN  req' = [req EXCEPT ![r] =
                   IF KeyAbsent(k)
                   THEN Respond(q, Json([error |-> "API key is required"], 401),
                                "Missing", <<"present">>)
                   ELSE [q EXCEPT !.pc = "keySelect", !.presented = k,
                                  !.trace = q.trace \o <<"present", "keyLookup">>]]
  /\ UNCHANGED <<now, users, apiKeys, tokens, products, categories>>

\* the store answers the key lookup (or is unreachable)
KeySelect(r) ==
  /\ req[r].pc = "keySelect"
  /\ \E fails \in BOOLEAN :
       req' = [req EXCEPT ![r] =
                 IF fails
                 THEN Respond(req[r], KeyCatch, "StoreFailure", <<>>)
                 ELSE [req[r] EXCEPT !.pc = "keyCheck",
                                     !.keyRecord = SelectActiveKey(req[r].presented[1])]]
  /\ UNCHANGED <<now, users, apiKeys, tokens, products, categories>>

\* lines 24-38: found / expiry checks, then the last-used write is issued
KeyCheck(r) ==
  /\ req[r].pc = "keyCheck"
  /\ LET q == req[r] IN
     req' = [req EXCEPT ![r] =
               IF q.keyRecord = Null
               THEN Respond([q EXCEPT !.evalAt = <<now>>],
                            Json([error |-> "Invalid API key"], 401),
                            "Invalid", <<"found">>)
               ELSE IF KeyExpired(q.keyRecord[1], now)
               THEN Respond([q EXCEPT !.evalAt = <<now>>],
                            Json([error |-> "API key has expired"], 401),
                            "Expired", <<"found", "expiry">>)
               ELSE [q EXCEPT !.pc = "keyUpdate", !.touch = <<now>>, !.evalAt = <<now>>,
                              !.trace = q.trace \o <<"found", "expiry", "touch">>]]
  /\ UNCHANGED <<now, users, apiKeys, tokens, products, categories>>

\* the record is attached as the write left it
AttachedKeyAfterWrite(q) == <<[q.keyRecord[1] EXCEPT !.lastUsedAt = q.touch]>>

\* line 41: c.set('apiKey', keyRecord), the record the select returned
AttachedKey(q) == q.keyRecord

\* the write is refused when the record changed since it was read
KeyUpdateIfUnchanged(r) ==
  /\ req[r].pc = "keyUpdate"
  /\ \E fails \in BOOLEAN :
       IF fails
       THEN /\ req' = [req EXCEPT ![r] = Respond(req[r], KeyCatch, "StoreFailure", <<>>)]
            /\ UNCHANGED apiKeys
       ELSE IF req[r].keyRecord[1] \notin apiKeys
       THEN /\ req' = [req EXCEPT ![r] = Respond(req[r], KeyCatch, "Conflict", <<>>)]
            /\ UNCHANGED apiKeys
       ELSE /\ apiKeys' = TouchKey(req[r].keyRecord[1].id, req[r].touch[1])
            /\ req' = [req EXCEPT ![r] =
                         CallNext([req[r] EXCEPT !.apiKey = AttachedKey(req[r])],
                                  <<"touched", "attach", "key.next">>)]
  /\ UNCHANGED <<now, users, tokens, products, categories>>

\* lines 35-43: the last-used write lands, the record is attached, next()
KeyUpdate(r) ==
  /\ req[r].pc = "keyUpdate"
  /\ \E fails \in BOOLEAN :
       IF fails
       THEN /\ req' = [req EXCEPT ![r] = Respond(req[r], KeyCatch, "StoreFailure", <<>>)]
            /\ UNCHANGED apiKeys
       ELSE /\ apiKeys' = TouchKey(req[r].keyRecord[1].id, req[r].touch[1])
            /\ req' = [req EXCEPT ![r] =
                         CallNext([req[r] EXCEPT !.apiKey = AttachedKey(req[r])],
                                  <<"touched", "attach", "key.next">>)]
  /\ UNCHANGED <<now, users, tokens, products, categories>>

\* -------------------------------------------------------- the next stage
\* app.onError
OnError == Json([error |-> "Internal Server Error"], 500)

\* an error raised by the last stage travels up the chain of awaited
\* next() calls to the innermost enclosing catch clause
Unwind(q) ==
  IF Occurs("auth", q.route) THEN Respond(q, AuthCatch, "Downstream", <<"handler", "throw">>)
  ELSE IF Occurs("apiKey", q.route) THEN Respond(q, KeyCatch, "Downstream", <<"handler", "throw">>)
  ELSE Respond(q, OnError, "Downstream", <<"handler", "throw">>)

\* the route handler: it answers, or the promise returned by next() rejects
Handler(r) ==
  /\ req[r].pc = "handler"
  /\ \E throws \in BOOLEAN :
       req' = [req EXCEPT ![r] =
                 IF throws THEN Unwind(req[r])
                 ELSE Respond(req[r], Json([data |-> "ok"], 200), "", <<"handler">>)]
  /\ UNCHANGED <<now, users, apiKeys, tokens, products, categories>>

\* ------------------------------------------- apiKeysRouter: regenerate
\* generateApiKey(): 'zk_' and 32 random bytes, a value that no record holds
\* or has held; Fresh names the value drawn when the record holds the
\* argument, and its domain bounds the number of regenerations
Fresh == [zk_a |-> "zk_a2", zk_a2 |-> "zk_a3", zk_c |-> "zk_c2"]

GenerateApiKey(old) == Fresh[old]

\* a second record with the new secret is written, the old one stays
RegenerateKeyBeside(id, t) ==
  apiKeys \cup {[a EXCEPT !.key = GenerateApiKey(a.key), !.updatedAt = t] :
                  a \in {b \in apiKeys : b.id = id}}

\* the new secret comes with a fresh lease: active, no expiry, never used
RegenerateKeyReset(id, t) ==
  {IF a.id = id
   THEN [a EXCEPT !.key = GenerateApiKey(a.key), !.updatedAt = t,
                  !.isActive = TRUE, !.expiresAt = Null, !.lastUsedAt = Null]
   ELSE a : a \in apiKeys}

\* db.update(apiKeys).set({key: generateApiKey(), updatedAt: t}).where(eq(id))
RegenerateKey(id, t) ==
  {IF a.id = id
   THEN [a EXCEPT !.key = GenerateApiKey(a.key), !.updatedAt = t]
   ELSE a : a \in apiKeys}

\* db.select / returning(): the rows with this id
KeysById(id) == {a \in apiKeys : a.id = id}

\* lines 194-202: the handler reads the id, draws the new secret and the
\* time, and awaits the update
RegenIssue(r) ==
  /\ req[r].pc = "regenerate"
  /\ \A a \in apiKeys : <<a.id>> = req[r].param => a.key \in DOMAIN Fresh
  /\ req' = [req EXCEPT ![r] =
               [req[r] EXCEPT !.pc = "regenWrite", !.stamp = <<now>>,
                              !.trace = req[r].trace \o <<"handler">>]]
  /\ UNCHANGED <<now, users, apiKeys, tokens, products, categories>>

\* lines 198-213: the update lands and returns the row, finds none, or throws
RegenWrite(r) ==
  /\ req[r].pc = "regenWrite"
  /\ \E fails \in BOOLEAN :
       LET q == req[r]
           id == q.param[1]
       IN  IF fails
           THEN /\ req' = [req EXCEPT ![r] =
                             Respond(q, Json([error |-> "Failed to regenerate API key"], 500),
                                     "StoreFailure", <<>>)]
                /\ UNCHANGED apiKeys
           ELSE IF KeysById(id) = {}
           THEN /\ req' = [req EXCEPT ![r] =
                             Respond(q, Json([error |-> "API key not found"], 404),
                                     "NotFound", <<>>)]
                /\ UNCHANGED apiKeys
           ELSE /\ apiKeys' = RegenerateKey(id, q.stamp[1])
                /\ req' = [req EXCEPT ![r] =
                             Respond(q, Json([data |-> CHOOSE a \in apiKeys' : a.id = id], 200),
                                     "", <<>>)]
  /\ UNCHANGED <<now, users, tokens, products, categories>>

\* ------------------------------- apiKeysRouter: create, update, delete
\* the id defaultRandom() and the secret generateApiKey() give to a record
\* that is created: values no other record holds
NewKeyId == 5

NewKeySecret == "zk_n"

\* the row is recorded for the administrator, whoever asked
CreatedKeyOfAdmin(data, user, t) ==
  [id |-> NewKeyId, key |-> NewKeySecret, name |-> data.name,
   description |-> data.description, createdBy |-> AdminId,
   expiresAt |-> data.expiresAt, isActive |-> TRUE, lastUsedAt |-> Null, updatedAt |-> t]

\* lines 122-127 and the column defaults: {...data, key, createdBy: user.id,
\* expiresAt: data.expiresAt ? new Date(data.expiresAt) : null}
CreatedKey(data, user, t) ==
  [id |-> NewKeyId, key |-> NewKeySecret, name |-> data.name,
   description |-> data.description, createdBy |-> user.id,
   expiresAt |-> data.expiresAt, isActive |-> TRUE, lastUsedAt |-> Null, updatedAt |-> t]

\* lines 117-139: the insert returns the row or throws
CreateKey(r) ==
  /\ req[r].pc = "createKey"
  /\ KeysById(NewKeyId) = {}
  /\ \E fails \in BOOLEAN :
       LET q == req[r] IN
       IF fails
       THEN /\ req' = [req EXCEPT ![r] =
                         Respond(q, Json([error |-> "Failed to create API key"], 500),
                                 "StoreFailure", <<"handler", "createKey">>)]
            /\ UNCHANGED apiKeys
       ELSE LET created == CreatedKey(q.data[1], q.user[1], now) IN
            /\ apiKeys' = apiKeys \cup {created}
            /\ req' = [req EXCEPT ![r] =
                         Respond(q, Json([data |-> created], 201), "",
                                 <<"handler", "createKey">>)]
  /\ UNCHANGED <<now, users, tokens, products, categories>>

\* lines 146-150: {...data, expiresAt: data.expiresAt ? new Date(..) :
\* undefined, updatedAt: new Date()}; a column that is undefined is not set
UpdatedKey(a, data, t) ==
  [f \in DOMAIN a |->
     IF f = "updatedAt" THEN t
     ELSE IF f \in DOMAIN data THEN data[f]
     ELSE a[f]]

\* lines 142-168: the update returns the row, finds none, or throws
UpdateKey(r) ==
  /\ req[r].pc = "updateKey"
  /\ \E fails \in BOOLEAN :
       LET q == req[r]
           id == q.param[1]
       IN  IF fails
           THEN /\ req' = [req EXCEPT ![r] =
                             Respond(q, Json([error |-> "Failed to update API key"], 500),
                                     "StoreFailure", <<"handler", "updateKey">>)]
                /\ UNCHANGED apiKeys
           ELSE IF KeysById(id) = {}
           THEN /\ req' = [req EXCEPT ![r] =
                             Respond(q, Json([error |-> "API key not found"], 404),
                                     "NotFound", <<"handler", "updateKey">>)]
                /\ UNCHANGED apiKeys
           ELSE /\ apiKeys' = {IF a.id = id THEN UpdatedKey(a, q.data[1], now) ELSE a :
                                 a \in apiKeys}
                /\ req' = [req EXCEPT ![r] =
                             Respond(q, Json([data |-> CHOOSE a \in apiKeys' : a.id = id], 200),
                                     "", <<"handler", "updateKey">>)]
  /\ UNCHANGED <<now, users, tokens, products, categories>>

\* the record is kept and marked inactive
DeleteKeySoft(id) == {IF a.id = id THEN [a EXCEPT !.isActive = FALSE] ELSE a : a \in apiKeys}

\* db.delete(apiKeys).where(eq(apiKeys.id, id))
DeleteKeyRows(id) == {a \in apiKeys : a.id # id}

\* lines 171-189: the delete returns the row, finds none, or throws
DeleteKey(r) ==
  /\ req[r].pc = "deleteKey"
  /\ \E fails \in BOOLEAN :
       LET q == req[r]
           id == q.param[1]
       IN  IF fails
           THEN /\ req' = [req EXCEPT ![r] =
                             Respond(q, Json([error |-> "Failed to delete API key"], 500),
                                     "StoreFailure", <<"handler", "deleteKey">>)]
                /\ UNCHANGED apiKeys
           ELSE IF KeysById(id) = {}
           THEN /\ req' = [req EXCEPT ![r] =
                             Respond(q, Json([error |-> "API key not found"], 404),
                                     "NotFound", <<"handler", "deleteKey">>)]
                /\ UNCHANGED apiKeys
           ELSE /\ apiKeys' = DeleteKeyRows(id)
                /\ req' = [req EXCEPT ![r] =
                             Respond(q, Json([message |-> "API key deleted successfully"], 200),
                                     "", <<"handler", "deleteKey">>)]
  /\ UNCHANGED <<now, users, tokens, products, categories>>

\* the catch clause of the handlers of the auth router and of productsRouter
InternalError == Json([error |-> "Internal server error"], 500)

\* ------------------------------------------------------- productsRouter
\* a path is the sequence of its segments below the router's mount point; a
\* pattern segment is a literal, a parameter or the trailing wildcard
Lit(x) == <<"lit", x>>

Param(x) == <<"param", x>>

Rest == <<"rest">>

\* the registrations of the router with the session and role gate registered
\* after the handlers they are meant to guard
ProductsRouterGateLast ==
  << [method |-> "GET",    path |-> <<>>,                   stage |-> "getProducts"],
     [method |-> "GET",    path |-> <<Param("identifier")>>, stage |-> "getProduct"],
     [method |-> "GET",    path |-> <<Lit("admin"), Lit("products")>>,
                                                             stage |-> "adminGetProducts"],
     [method |-> "POST",   path |-> <<Lit("admin"), Lit("products")>>,
                                                             stage |-> "createProduct"],
     [method |-> "PUT",    path |-> <<Lit("admin"), Lit("products"), Param("id")>>,
                                                             stage |-> "updateProduct"],
     [method |-> "DELETE", path |-> <<Lit("admin"), Lit("products"), Param("id")>>,
                                                             stage |-> "deleteProduct"],
     [method |-> "GET",    path |-> <<Lit("categories")>>,   stage |-> "getCategories"],
     [method |-> "POST",   path |-> <<Lit("admin"), Lit("categories")>>,
                                                             stage |-> "createCategory"],
     [method |-> "ALL",    path |-> <<Lit("admin"), Rest>>,  stage |-> "auth"],
     [method |-> "ALL",    path |-> <<Lit("admin"), Rest>>,  stage |-> "staff"] >>

\* the registrations of productsRouter, in the order of the source
ProductsRouter ==
  << [method |-> "GET",    path |-> <<>>,                   stage |-> "getProducts"],
     [method |-> "GET",    path |-> <<Param("identifier")>>, stage |-> "getProduct"],
     [method |-> "ALL",    path |-> <<Lit("admin"), Rest>>,  stage |-> "auth"],
     [method |-> "ALL",    path |-> <<Lit("admin"), Rest>>,  stage |-> "staff"],
     [method |-> "GET",    path |-> <<Lit("admin"), Lit("products")>>,
                                                             stage |-> "adminGetProducts"],
     [method |-> "POST",   path |-> <<Lit("admin"), Lit("products")>>,
                                                             stage |-> "createProduct"],
     [method |-> "PUT",    path |-> <<Lit("admin"), Lit("products"), Param("id")>>,
                                                             stage |-> "updateProduct"],
     [method |-> "DELETE", path |-> <<Lit("admin"), Lit("products"), Param("id")>>,
                                                             stage |-> "deleteProduct"],
     [method |-> "GET",    path |-> <<Lit("categories")>>,   stage |-> "getCategories"],
     [method |-> "POST",   path |-> <<Lit("admin"), Lit("categories")>>,
                                                             stage |-> "createCategory"] >>

\* a literal matches itself, a parameter any segment
SegmentMatches(pat, seg) == pat[1] = "param" \/ (pat[1] = "lit" /\ pat[2] = seg)

\* a pattern matches a path of its length segment by segment; with a trailing
\* wildcard it matches every path that extends its prefix
PathMatches(pat, path) ==
  IF pat # <<>> /\ pat[Len(pat)] = Rest
  THEN /\ Len(path) >= Len(pat) - 1
       /\ \A i \in 1..(Len(pat) - 1) : SegmentMatches(pat[i], path[i])
  ELSE /\ Len(path) = Len(pat)
       /\ \A i \in 1..Len(pat) : SegmentMatches(pat[i], path[i])

\* the registered route matches the request
RouteMatches(e, method, path) ==
  e.method \in {"ALL", method} /\ PathMatches(e.path, path)

\* the router hands the request every matching middleware and handler in
\* the order of registration; behind the last of them stands app.notFound
Chain(method, path) ==
  LET Hit(e) == RouteMatches(e, method, path)
      hits == SelectSeq(ProductsRouter, Hit)
  IN  [i \in 1..Len(hits) |-> hits[i].stage] \o <<"notFound">>

\* /^[0-9a-f]{8}-...-[0-9a-f]{12}$/i.test(identifier): the strings of that shape
Uuids == {"p-1", "p-2", "c-1", "c-2", "c-3"}

IsUUID(x) == x \in Uuids

\* products.id defaultRandom(): an id no row has; the pool bounds the table
ProductIds == {"p-1", "p-2"}

FreeProductIds == ProductIds \ {p.id : p \in products}

\* app.notFound
NotFoundResponse ==
  Json([error |-> "Not Found", message |-> "The requested resource was not found"], 404)

NotFound(r) ==
  /\ req[r].pc = "notFound"
  /\ req' = [req EXCEPT ![r] = Respond(req[r], NotFoundResponse, "NoRoute", <<"notFound">>)]
  /\ UNCHANGED <<now, users, apiKeys, tokens, products, categories>>

\* lines 24-75: the active products (filters, order and paging left out)
GetProducts(r) ==
  /\ req[r].pc = "getProducts"
  /\ \E fails \in BOOLEAN :
       LET q == [req[r] EXCEPT !.trace = req[r].trace \o <<"handler", "getProducts">>]
       IN  req' = [req EXCEPT ![r] =
                     IF fails THEN Respond(q, InternalError, "StoreFailure", <<>>)
                     ELSE Respond(q, Json([products |-> {p \in products : p.isActive}], 200),
                                  "", <<>>)]
  /\ UNCHANGED <<now, users, apiKeys, tokens, products, categories>>

\* lines 85-94: the active product with this id (a UUID) or this slug
SelectProduct(identifier) ==
  {p \in products : /\ IF IsUUID(identifier) THEN p.id = identifier
                                              ELSE p.slug = identifier
                    /\ p.isActive}

\* lines 79-106
GetProduct(r) ==
  /\ req[r].pc = "getProduct"
  /\ \E fails \in BOOLEAN :
       LET q == [req[r] EXCEPT !.trace = req[r].trace \o <<"handler", "getProduct">>]
           result == SelectProduct(q.path[1])
       IN  req' = [req EXCEPT ![r] =
                     IF fails THEN Respond(q, InternalError, "StoreFailure", <<>>)
                     ELSE IF result = {}
                     THEN Respond(q, Json([error |-> "Product not found"], 404), "NotFound", <<>>)
                     ELSE Respond(q, Json([product |-> CHOOSE p \in result : TRUE], 200),
                                  "", <<>>)]
  /\ UNCHANGED <<now, users, apiKeys, tokens, products, categories>>

\* lines 112-164: every product, inactive ones included
AdminGetProducts(r) ==
  /\ req[r].pc = "adminGetProducts"
  /\ \E fails \in BOOLEAN :
       LET q == [req[r] EXCEPT !.trace = req[r].trace \o <<"handler", "adminGetProducts">>]
       IN  req' = [req EXCEPT ![r] =
                     IF fails THEN Respond(q, InternalError, "StoreFailure", <<>>)
                     ELSE Respond(q, Json([products |-> products], 200), "", <<>>)]
  /\ UNCHANGED <<now, users, apiKeys, tokens, products, categories>>

\* lines 167-184: the row is inserted; products.slug is unique
CreateProduct(r) ==
  /\ req[r].pc = "createProduct"
  /\ FreeProductIds # {}
  /\ \E fails \in BOOLEAN :
       LET q == [req[r] EXCEPT !.trace = req[r].trace \o <<"handler", "createProduct">>]
           row == [id |-> CHOOSE i \in FreeProductIds : TRUE] @@ q.data[1]
       IN  IF fails \/ \E p \in products : p.slug = row.slug
           THEN /\ req' = [req EXCEPT ![r] = Respond(q, InternalError, "StoreFailure", <<>>)]
                /\ UNCHANGED products
           ELSE /\ products' = products \cup {row}
                /\ req' = [req EXCEPT ![r] =
                             Respond(q, Json([message |-> "Product created successfully",
                                              product |-> row], 201), "", <<>>)]
  /\ UNCHANGED <<now, users, apiKeys, tokens, categories>>

\* lines 187-210: the columns of the body are set where the id matches; the
\* store throws on an id that is no UUID
UpdateProduct(r) ==
  /\ req[r].pc = "updateProduct"
  /\ \E fails \in BOOLEAN :
       LET q == [req[r] EXCEPT !.trace = req[r].trace \o <<"handler", "updateProduct">>]
           id == q.path[3]
           result == {q.data[1] @@ p : p \in {x \in products : x.id = id}}
       IN  IF fails \/ ~IsUUID(id)
           THEN /\ req' = [req EXCEPT ![r] = Respond(q, InternalError, "StoreFailure", <<>>)]
                /\ UNCHANGED products
           ELSE IF result = {}
           THEN /\ req' = [req EXCEPT ![r] =
                             Respond(q, Json([error |-> "Product not found"], 404),
                                     "NotFound", <<>>)]
                /\ UNCHANGED products
           ELSE /\ products' = {p \in products : p.id # id} \cup result
                /\ req' = [req EXCEPT ![r] =
                             Respond(q, Json([message |-> "Product updated successfully",
                                              product |-> CHOOSE p \in result : TRUE], 200),
                                     "", <<>>)]
  /\ UNCHANGED <<now, users, apiKeys, tokens, categories>>

\* lines 213-233
DeleteProduct(r) ==
  /\ req[r].pc = "deleteProduct"
  /\ \E fails \in BOOLEAN :
       LET q == [req[r] EXCEPT !.trace = req[r].trace \o <<"handler", "deleteProduct">>]
           id == q.path[3]
       IN  IF fails \/ ~IsUUID(id)
           THEN /\ req' = [req EXCEPT ![r] = Respond(q, InternalError, "StoreFailure", <<>>)]
                /\ UNCHANGED products
           ELSE IF {p \in products : p.id = id} = {}
           THEN /\ req' = [req EXCEPT ![r] =
                             Respond(q, Json([error |-> "Product not found"], 404),
                                     "NotFound", <<>>)]
                /\ UNCHANGED products
           ELSE /\ products' = {p \in products : p.id # id}
                /\ req' = [req EXCEPT ![r] =
                             Respond(q, Json([message |-> "Product deleted successfully"], 200),
                                     "", <<>>)]
  /\ UNCHANGED <<now, users, apiKeys, tokens, categories>>

\* how the store collates the category names in use
NameOrder == <<"Clothing", "Electronics", "Garden">>

NameRank(name) == CHOOSE i \in 1..Len(NameOrder) : NameOrder[i] = name

\* orderBy(asc(categories.sortOrder), asc(categories.name))
CategoryBefore(a, b) ==
  \/ a.sortOrder < b.sortOrder
  \/ a.sortOrder = b.sortOrder /\ NameRank(a.name) <= NameRank(b.name)

RECURSIVE OrderCategories(_)
OrderCategories(rows) ==
  IF rows = {} THEN <<>>
  ELSE LET first == CHOOSE a \in rows : \A b \in rows : CategoryBefore(a, b)
       IN  <<first>> \o OrderCategories(rows \ {first})

\* lines 237-250: the active categories in order
GetCategories(r) ==
  /\ req[r].pc = "getCategories"
  /\ \E fails \in BOOLEAN :
       LET q == [req[r] EXCEPT !.trace = req[r].trace \o <<"handler", "getCategories">>]
       IN  req' = [req EXCEPT ![r] =
                     IF fails THEN Respond(q, InternalError, "StoreFailure", <<>>)
                     ELSE Respond(q, Json([categories |->
                                             OrderCategories({a \in categories : a.isActive})],
                                          200), "", <<>>)]
  /\ UNCHANGED <<now, users, apiKeys, tokens, products, categories>>

\* lines 252-269: the row is inserted; categories.slug is unique
CreateCategory(r) ==
  /\ req[r].pc = "createCategory"
  /\ \E fails \in BOOLEAN :
       LET q == [req[r] EXCEPT !.trace = req[r].trace \o <<"handler", "createCategory">>]
           row == [id |-> "c-3"] @@ q.data[1]
       IN  IF fails \/ \E a \in categories : a.slug = row.slug \/ a.id = row.id
           THEN /\ req' = [req EXCEPT ![r] = Respond(q, InternalError, "StoreFailure", <<>>)]
                /\ UNCHANGED categories
           ELSE /\ categories' = categories \cup {row}
                /\ req' = [req EXCEPT ![r] =
                             Respond(q, Json([message |-> "Category created successfully",
                                              category |-> row], 201), "", <<>>)]
  /\ UNCHANGED <<now, users, apiKeys, tokens, products>>

\* ------------------------------------------------------------- requests
\* an issued token whose role claim was altered: the signature no longer fits
Tamper(tok) ==
  [tok EXCEPT !.claims.role = IF tok.claims.role = "admin" THEN "customer" ELSE "admin"]

\* Authorization header values a client sends: none, a token that was issued
\* to it (right and wrong scheme keyword), or a tampered one
AuthzHeaders ==
  {Null} \cup {<< <<"Bearer", tok>> >> : tok \in tokens}
         \cup {<< <<"bearer", tok>> >> : tok \in tokens}
         \cup {<< <<"Bearer", Tamper(tok)>> >> : tok \in tokens}

\* X-API-Key / api_key values a client sends
KeyInputs == {Null, <<"">>, <<"zk_unknown">>} \cup {<<a.key>> : a \in apiKeys}

\* the subject a request claims to act for
Subject(authz) ==
  LET token == ExtractTokenFromHeader(authz)
  IN  IF token = Null THEN Null ELSE <<token[1].claims.userId>>

\* a request for one of the routes arrives at a free task and enters the
\* first stage of its chain; In holds the values clients send
ReceiveFrom(r, routes, In) ==
  /\ req[r].pc \in {"idle", "done"}
  /\ \E route \in routes :
     \E authz \in (IF Occurs("auth", route) THEN In.authz ELSE {Null}) :
     \E xkey \in (IF Occurs("apiKey", route) THEN In.xkey ELSE {Null}) :
     \E qkey \in (IF Occurs("apiKey", route) THEN In.qkey ELSE {Null}) :
     \E param \in (IF Endpoint(route) \in ParamEndpoints THEN In.param ELSE {Null}) :
     \E email \in (IF Endpoint(route) \in BodyEndpoints THEN In.email ELSE {Null}) :
     \E password \in (IF Endpoint(route) \in BodyEndpoints THEN In.password ELSE {Null}) :
       req' = [req EXCEPT ![r] =
                 [IdleReq EXCEPT !.pc = PcOf(route, 1), !.route = route, !.stage = 1,
                                 !.authz = authz, !.xkey = xkey, !.qkey = qkey,
                                 !.param = param, !.email = email, !.password = password,
                                 !.inact = \E u \in users :
                                              /\ Subject(authz) = <<u.id>>
                                              /\ ~u.isActive]]
  /\ UNCHANGED <<now, users, apiKeys, tokens, products, categories>>

\* a request with a method and a path arrives at productsRouter and enters
\* the first stage of the chain the router matched
ReceiveAt(r, In) ==
  /\ req[r].pc \in {"idle", "done"}
  /\ \E target \in In.target :
     LET method == target[1]
         path == target[2]
         chain == Chain(method, path)
     IN
     \E authz \in (IF Occurs("auth", chain) THEN In.authz ELSE {Null}) :
     \E data \in (IF Occurs("createProduct", chain) THEN In.product
                  ELSE IF Occurs("updateProduct", chain) THEN In.patch
                  ELSE IF Occurs("createCategory", chain) THEN In.category
                  ELSE {Null}) :
       req' = [req EXCEPT ![r] =
                 [IdleReq EXCEPT !.pc = PcOf(chain, 1), !.route = chain, !.stage = 1,
                                 !.method = method, !.path = path,
                                 !.authz = authz, !.data = data,
                                 !.inact = \E u \in users :
                                              /\ Subject(authz) = <<u.id>>
                                              /\ ~u.isActive]]
  /\ UNCHANGED <<now, users, apiKeys, tokens, products, categories>>

\* the chains of apiKeysRouter: use('*', authMiddleware), use('*',
\* requireStaff), then the handler
KeyAdminRoutes ==
  { <<"auth", "staff", e>> : e \in {"createKey", "updateKey", "deleteKey", "regenerate"} }

\* a request for a handler of apiKeysRouter arrives at a free task
ReceiveKeyAdmin(r, In) ==
  /\ req[r].pc \in {"idle", "done"}
  /\ \E route \in KeyAdminRoutes \cap In.routes :
     \E authz \in In.authz :
     \E param \in (IF Endpoint(route) = "createKey" THEN {Null}
                   ELSE In.param[Endpoint(route)]) :
     \E data \in (IF Endpoint(route) = "createKey" THEN In.create
                  ELSE IF Endpoint(route) = "updateKey" THEN In.patch
                  ELSE {Null}) :
       req' = [req EXCEPT ![r] =
                 [IdleReq EXCEPT !.pc = PcOf(route, 1), !.route = route, !.stage = 1,
                                 !.authz = authz, !.param = param, !.data = data,
                                 !.inact = \E u \in users :
                                              /\ Subject(authz) = <<u.id>>
                                              /\ ~u.isActive]]
  /\ UNCHANGED <<now, users, apiKeys, tokens, products, categories>>

\* a request to the auth router arrives; the body of a registration may
\* carry fields beside those of registerSchema (In.extra)
ReceiveAccount(r, routes, In) ==
  /\ req[r].pc \in {"idle", "done"}
  /\ \E route \in routes :
     \E authz \in (IF Occurs("auth", route) THEN In.authz ELSE {Null}) :
     \E email \in (IF Endpoint(route) \in BodyEndpoints THEN In.email ELSE {Null}) :
     \E password \in (IF Endpoint(route) \in BodyEndpoints THEN In.password ELSE {Null}) :
     \E data \in (IF Endpoint(route) = "register" THEN In.extra ELSE {Null}) :
       req' = [req EXCEPT ![r] =
                 [IdleReq EXCEPT !.pc = PcOf(route, 1), !.route = route, !.stage = 1,
                                 !.authz = authz, !.email = email, !.password = password,
                                 !.data = data,
                                 !.inact = \E u \in users :
                                              /\ Subject(authz) = <<u.id>>
                                              /\ ~u.isActive]]
  /\ UNCHANGED <<now, users, apiKeys, tokens, products, categories>>

\* any header and key value a client may send
Receive(r, routes) ==
  ReceiveFrom(r, routes, [authz |-> AuthzHeaders, xkey |-> KeyInputs, qkey |-> KeyInputs,
                          param |-> {Null}, email |-> {Null}, password |-> {Null}])

\* ---------------------------------------------------------------- login
\* auth.post('/login'): a token is issued from the row that was read.  The
\* handler's three store and hashing calls are taken as one step: nothing
\* else reads lastLoginAt, and the claims come from the row as it was read.
Login(email, password) ==
  LET userResult == SelectUserByEmail(email) IN
  IF \/ Len(userResult) = 0
     \/ ~userResult[1].isActive
     \/ ~ComparePassword(password, userResult[1].password)
  THEN UNCHANGED vars
  ELSE /\ Cardinality(tokens) < MaxTokens
       /\ users' = {IF u.id = userResult[1].id
                    THEN [u EXCEPT !.lastLoginAt = <<now>>] ELSE u : u \in users}
       /\ tokens' = tokens \cup {GenerateToken(userResult[1], now)}
       /\ UNCHANGED <<now, apiKeys, req, products, categories>>

\* --------------------------------------- the auth router, step by step
\* the row is sent as it is stored
UserAsStored(u) == u

\* const { password: _, ...userWithoutPassword } = user
UserWithoutPassword(u) == [f \in DOMAIN u \ {"password"} |-> u[f]]

\* the client keeps the token it is handed, as far as it keeps tokens at all
Handed(tok) == IF Cardinality(tokens) < MaxTokens THEN tokens \cup {tok} ELSE tokens

\* users.id defaultRandom(): an id that no row has
NewUserId == 1 + CHOOSE n \in {u.id : u \in users} \cup {AdminId} :
                   \A u \in users : u.id <= n

\* login, lines 334-351: the row with this email is read; no row and an
\* inactive row end the request
LoginFind(r) ==
  /\ req[r].pc = "login"
  /\ \E fails \in BOOLEAN :
       LET q == [req[r] EXCEPT !.trace = req[r].trace \o <<"handler", "find">>]
           userResult == SelectUserByEmail(q.email[1])
       IN  req' = [req EXCEPT ![r] =
                     IF fails
                     THEN Respond(q, InternalError, "StoreFailure", <<"find.throw">>)
                     ELSE IF Len(userResult) = 0
                     THEN Respond(q, Json([error |-> "Invalid credentials"], 401),
                                  "UnknownUser", <<"find.none">>)
                     ELSE IF ~userResult[1].isActive
                     THEN Respond([q EXCEPT !.rows = userResult],
                                  Json([error |-> "Account is deactivated"], 401),
                                  "Deactivated", <<"find.row">>)
                     ELSE [q EXCEPT !.pc = "loginCompare", !.rows = userResult,
                                    !.trace = q.trace \o <<"find.row">>]]
  /\ UNCHANGED <<now, users, apiKeys, tokens, products, categories>>

\* the comparison's answer is not looked at
LoginCompareLenient(r) ==
  /\ req[r].pc = "loginCompare"
  /\ req' = [req EXCEPT ![r] =
               [req[r] EXCEPT !.pc = "loginUpdate", !.stamp = <<now>>,
                              !.trace = req[r].trace \o <<"compare">>]]
  /\ UNCHANGED <<now, users, apiKeys, tokens, products, categories>>

\* login, lines 354-363: the password is compared and the last-login write
\* is issued
LoginCompare(r) ==
  /\ req[r].pc = "loginCompare"
  /\ LET q == req[r] IN
     req' = [req EXCEPT ![r] =
               IF ~ComparePassword(q.password[1], q.rows[1].password)
               THEN Respond(q, Json([error |-> "Invalid credentials"], 401),
                            "WrongPassword", <<"compare">>)
               ELSE [q EXCEPT !.pc = "loginUpdate", !.stamp = <<now>>,
                              !.trace = q.trace \o <<"compare">>]]
  /\ UNCHANGED <<now, users, apiKeys, tokens, products, categories>>

\* login, lines 360-376: the write lands, the token is made from the row as
\* it was read
LoginUpdate(r) ==
  /\ req[r].pc = "loginUpdate"
  /\ \E fails \in BOOLEAN :
       LET q == req[r]
           user == q.rows[1]
           token == GenerateToken(user, now)
       IN  IF fails
           THEN /\ req' = [req EXCEPT ![r] =
                             Respond(q, InternalError, "StoreFailure", <<"update.throw">>)]
                /\ UNCHANGED <<users, tokens>>
           ELSE /\ users' = {IF u.id = user.id
                             THEN [u EXCEPT !.lastLoginAt = q.stamp] ELSE u : u \in users}
                /\ tokens' = Handed(token)
                /\ req' = [req EXCEPT ![r] =
                             Respond(q, Json([message |-> "Login successful",
                                              user |-> UserWithoutPassword(user),
                                              token |-> token], 200),
                                     "", <<"update">>)]
  /\ UNCHANGED <<now, apiKeys, products, categories>>

\* role and isActive are taken from the body when it has them
NewUserFromBody(q) ==
  LET extra == IF q.data = Null THEN [x \in {} |-> x] ELSE q.data[1] IN
  [id |-> NewUserId, email |-> q.email[1], password |-> HashPassword(q.password[1]),
   role |-> IF "role" \in DOMAIN extra THEN extra.role ELSE "customer",
   isActive |-> IF "isActive" \in DOMAIN extra THEN extra.isActive ELSE TRUE,
   lastLoginAt |-> Null]

\* lines 285 and 302-313: the values come from the fields registerSchema
\* picks (email, password, names, phone); role is 'customer', and is_active
\* and last_login_at take the column defaults
NewUser(q) ==
  [id |-> NewUserId, email |-> q.email[1], password |-> HashPassword(q.password[1]),
   role |-> "customer", isActive |-> TRUE, lastLoginAt |-> Null]

\* register, lines 285-297: is there a row with this email
RegisterFind(r) ==
  /\ req[r].pc = "register"
  /\ \E fails \in BOOLEAN :
       LET q == [req[r] EXCEPT !.trace = req[r].trace \o <<"handler", "find">>]
           existingUser == SelectUserByEmail(q.email[1])
       IN  req' = [req EXCEPT ![r] =
                     IF fails
                     THEN Respond(q, InternalError, "StoreFailure", <<"find.throw">>)
                     ELSE IF Len(existingUser) > 0
                     THEN Respond(q, Json([error |-> "User already exists with this email"], 400),
                                  "EmailTaken", <<"find.row">>)
                     ELSE [q EXCEPT !.pc = "registerInsert",
                                    !.trace = q.trace \o <<"find.none">>]]
  /\ UNCHANGED <<now, users, apiKeys, tokens, products, categories>>

\* register, lines 300-324: the password is hashed and the row inserted
\* (users.email is unique: a second row with the email makes the store
\* throw); the token is made from the returned row
RegisterInsert(r) ==
  /\ req[r].pc = "registerInsert"
  /\ \E fails \in BOOLEAN :
       LET q == req[r]
           user == NewUser(q)
           token == GenerateToken(user, now)
       IN  IF fails \/ Len(SelectUserByEmail(q.email[1])) > 0
           THEN /\ req' = [req EXCEPT ![r] =
                             Respond(q, InternalError,
                                     IF fails THEN "StoreFailure" ELSE "UniqueViolation",
                                     <<"insert.throw">>)]
                /\ UNCHANGED <<users, tokens>>
           ELSE /\ users' = users \cup {user}
                /\ tokens' = Handed(token)
                /\ req' = [req EXCEPT ![r] =
                             Respond(q, Json([message |-> "User registered successfully",
                                              user |-> UserWithoutPassword(user),
                                              token |-> token], 201),
                                     "", <<"insert">>)]
  /\ UNCHANGED <<now, apiKeys, products, categories>>

\* /me, lines 386-406: the row of the attached identity is read
MeFind(r) ==
  /\ req[r].pc = "me"
  /\ \E fails \in BOOLEAN :
       LET q == [req[r] EXCEPT !.trace = req[r].trace \o <<"handler", "find">>]
           userResult == SelectUserById(q.user[1].id)
       IN  req' = [req EXCEPT ![r] =
                     IF fails
                     THEN Respond(q, InternalError, "StoreFailure", <<"find.throw">>)
                     ELSE IF Len(userResult) = 0
                     THEN Respond(q, Json([error |-> "User not found"], 404),
                                  "NotFound", <<"find.none">>)
                     ELSE Respond(q, Json([user |-> UserWithoutPassword(userResult[1])], 200),
                                  "", <<"find.row">>)]
  /\ UNCHANGED <<now, users, apiKeys, tokens, products, categories>>

\* the token is issued again from the identity the old token named
RefreshSubjectFromClaims(q, userResult) == q.user[1]

\* line 423: generateToken(userResult[0]), the row as it was just read
RefreshSubject(q, userResult) == userResult[1]

\* /refresh, lines 410-434: the row of the attached identity is read; a
\* token is issued from it if it is there and active
Refresh(r) ==
  /\ req[r].pc = "refresh"
  /\ \E fails \in BOOLEAN :
       LET q == [req[r] EXCEPT !.trace = req[r].trace \o <<"handler", "find">>]
           userResult == SelectUserById(q.user[1].id)
           token == GenerateToken(RefreshSubject(q, userResult), now)
       IN  IF fails
           THEN /\ req' = [req EXCEPT ![r] =
                             Respond(q, InternalError, "StoreFailure", <<"find.throw">>)]
                /\ UNCHANGED tokens
           ELSE IF Len(userResult) = 0 \/ ~userResult[1].isActive
           THEN /\ req' = [req EXCEPT ![r] =
                             Respond(q, Json([error |-> "User not found or inactive"], 404),
                                     "NotFound", <<"find.none">>)]
                /\ UNCHANGED tokens
           ELSE /\ tokens' = Handed(token)
                /\ req' = [req EXCEPT ![r] =
                             Respond([q EXCEPT !.rows = userResult],
                                     Json([message |-> "Token refreshed successfully",
                                           token |-> token], 200),
                                     "", <<"find.row">>)]
  /\ UNCHANGED <<now, users, apiKeys, products, categories>>

\* ----------------------------------------------- other writers of the store
\* users.is_active is written
SetActive(id, b) ==
  /\ \E u \in users : u.id = id /\ u.isActive # b
  /\ users' = {IF u.id = id THEN [u EXCEPT !.isActive = b] ELSE u : u \in users}
  /\ req' = [r \in DOMAIN req |->
               IF b /\ Subject(req[r].authz) = <<id>>
               THEN [req[r] EXCEPT !.inact = FALSE] ELSE req[r]]
  /\ UNCHANGED <<now, apiKeys, tokens, products, categories>>

\* users.role is written
SetRole(id, role) ==
  /\ \E u \in users : u.id = id /\ u.role # role
  /\ users' = {IF u.id = id THEN [u EXCEPT !.role = role] ELSE u : u \in users}
  /\ UNCHANGED <<now, apiKeys, tokens, req, products, categories>>

\* a row of users is deleted
RemoveUser(id) ==
  /\ \E u \in users : u.id = id
  /\ users' = {u \in users : u.id # id}
  /\ UNCHANGED <<now, apiKeys, tokens, req, products, categories>>

\* time passes
Tick ==
  /\ now < MaxTime
  /\ now' = now + 1
  /\ UNCHANGED <<users, apiKeys, tokens, req, products, categories>>

\* ----------------------------------------------------------- behaviours
\* seed.ts: an active product, and two active categories whose names are in
\* the opposite order of their sortOrder
SeedProducts ==
  { [id |-> "p-1", slug |-> "headphones", name |-> "Headphones", isActive |-> TRUE] }

SeedCategories ==
  { [id |-> "c-1", slug |-> "electronics", name |-> "Electronics", sortOrder |-> 1,
     isActive |-> TRUE],
    [id |-> "c-2", slug |-> "clothing", name |-> "Clothing", sortOrder |-> 2,
     isActive |-> TRUE] }

KeyExpiry == MaxTime - 1

\* columns of a key record that no step of the key gate reads or writes
KeyMeta(n) == [name |-> n, description |-> Null, createdBy |-> AdminId, updatedAt |-> 0]

InitKeys ==
  { [id |-> 1, key |-> "zk_a", isActive |-> TRUE,  expiresAt |-> <<KeyExpiry>>, lastUsedAt |-> Null]
      @@ KeyMeta("a"),
    [id |-> 2, key |-> "zk_b", isActive |-> TRUE,  expiresAt |-> Null,          lastUsedAt |-> Null]
      @@ KeyMeta("b"),
    [id |-> 3, key |-> "zk_c", isActive |-> FALSE, expiresAt |-> <<KeyExpiry>>, lastUsedAt |-> Null]
      @@ KeyMeta("c"),
    [id |-> 4, key |-> "zk_d", isActive |-> FALSE, expiresAt |-> Null,          lastUsedAt |-> Null]
      @@ KeyMeta("d") }

Init ==
  /\ now = 0
  /\ products = SeedProducts
  /\ categories = SeedCategories
  /\ users = {AdminUser}
  /\ apiKeys = InitKeys
  /\ tokens = {}
  /\ req = [r \in Reqs |-> IdleReq]

SessionRoutes == {route \in Routes : ~Occurs("apiKey", route)}

KeyRoutes == {route \in Routes : Occurs("apiKey", route)}

\* the session gate, the role gate and the writers of table users
NextAuth ==
  \/ \E r \in Reqs : Receive(r, SessionRoutes)
  \/ \E r \in Reqs : AuthMw(r)
  \/ \E r \in Reqs : AuthSelect(r)
  \/ \E r \in Reqs : RoleGate(r)
  \/ \E r \in Reqs : Handler(r)
  \/ \E email \in Emails, password \in Passwords : Login(email, password)
  \/ \E b \in BOOLEAN : SetActive(AdminId, b)
  \/ \E role \in Roles : SetRole(AdminId, role)
  \/ RemoveUser(AdminId)
  \/ Tick

\* the API key gate
NextKey ==
  \/ \E r \in Reqs : Receive(r, KeyRoutes)
  \/ \E r \in Reqs : KeyMw(r)
  \/ \E r \in Reqs : KeySelect(r)
  \/ \E r \in Reqs : KeyCheck(r)
  \/ \E r \in Reqs : KeyUpdate(r)
  \/ \E r \in Reqs : Handler(r)
  \/ Tick

\* the state after one successful login of the administrator at time 0
InitIssued ==
  /\ now = 0
  /\ products = SeedProducts
  /\ categories = SeedCategories
  /\ users = {[AdminUser EXCEPT !.lastLoginAt = <<0>>]}
  /\ apiKeys = InitKeys
  /\ tokens = {GenerateToken(AdminUser, 0)}
  /\ req = [r \in Reqs |-> IdleReq]

\* both gates side by side, for the tokens issued so far
Next ==
  \/ \E r \in Reqs : Receive(r, Routes)
  \/ \E r \in Reqs : AuthMw(r)
  \/ \E r \in Reqs : AuthSelect(r)
  \/ \E r \in Reqs : RoleGate(r)
  \/ \E r \in Reqs : KeyMw(r)
  \/ \E r \in Reqs : KeySelect(r)
  \/ \E r \in Reqs : KeyCheck(r)
  \/ \E r \in Reqs : KeyUpdate(r)
  \/ \E r \in Reqs : Handler(r)
  \/ \E b \in BOOLEAN : SetActive(AdminId, b)
  \/ \E role \in Roles : SetRole(AdminId, role)
  \/ RemoveUser(AdminId)
  \/ Tick

Spec == InitIssued /\ [][Next]_vars

SpecAuth == Init /\ [][NextAuth]_vars

SpecKey == Init /\ [][NextKey]_vars

\* ------------------------------------------------- two requests at once
\* two request tasks served by the one process
Pair == {1, 2}

InitPair ==
  /\ now = 0
  /\ products = SeedProducts
  /\ categories = SeedCategories
  /\ users = {AdminUser}
  /\ apiKeys = InitKeys
  /\ tokens = {}
  /\ req = [r \in Pair |-> IdleReq]

\* clients that hold the secrets of three of the stored keys and send them in
\* the header
HeldKeys ==
  [authz |-> {Null}, xkey |-> {<<"zk_a">>, <<"zk_b">>, <<"zk_c">>}, qkey |-> {Null},
   param |-> {Null}, email |-> {Null}, password |-> {Null}]

\* the API key gate serving two requests whose steps interleave
NextKeyPair ==
  \/ \E r \in Pair : ReceiveFrom(r, KeyRoutes, HeldKeys)
  \/ \E r \in Pair : KeyMw(r)
  \/ \E r \in Pair : KeySelect(r)
  \/ \E r \in Pair : KeyCheck(r)
  \/ \E r \in Pair : KeyUpdate(r)
  \/ \E r \in Pair : Handler(r)
  \/ Tick

SpecKeyPair == InitPair /\ [][NextKeyPair]_vars

\* ------------------------------------------------------- key management
\* apiKeysRouter.post('/:id/regenerate') behind authMiddleware, requireStaff
MgmtRoutes == { <<"auth", "staff", "regenerate">> }

\* a staff client holding the tokens issued so far asks for a new secret of
\* key 1, key 3 or of a key that does not exist; key clients present old and
\* new secrets
MgmtIn ==
  [authz |-> {<< <<"Bearer", tok>> >> : tok \in tokens},
   xkey |-> {<<"zk_a">>, <<"zk_a2">>, <<"zk_a3">>, <<"zk_c2">>}, qkey |-> {Null},
   param |-> {<<1>>, <<3>>, <<9>>}, email |-> {Null}, password |-> {Null}]

NextMgmt ==
  \/ \E r \in Reqs : ReceiveFrom(r, MgmtRoutes \cup KeyRoutes, MgmtIn)
  \/ \E r \in Reqs : AuthMw(r)
  \/ \E r \in Reqs : AuthSelect(r)
  \/ \E r \in Reqs : RoleGate(r)
  \/ \E r \in Reqs : RegenIssue(r)
  \/ \E r \in Reqs : RegenWrite(r)
  \/ \E r \in Reqs : KeyMw(r)
  \/ \E r \in Reqs : KeySelect(r)
  \/ \E r \in Reqs : KeyCheck(r)
  \/ \E r \in Reqs : KeyUpdate(r)
  \/ \E r \in Reqs : Handler(r)
  \/ Login(AdminEmail, AdminPassword)
  \/ Tick

SpecMgmt == Init /\ [][NextMgmt]_vars

\* -------------------------------------------- identity lookups, two at once
\* auth.post('/login') and a route behind the session gate
LookupRoutes == { <<"login">>, <<"auth", "handler">> }

InitIssuedPair ==
  /\ now = 0
  /\ products = SeedProducts
  /\ categories = SeedCategories
  /\ users = {[AdminUser EXCEPT !.lastLoginAt = <<0>>]}
  /\ apiKeys = InitKeys
  /\ tokens = {GenerateToken(AdminUser, 0)}
  /\ req = [r \in Pair |-> IdleReq]

\* clients that send an issued token, and a known or an unknown email with
\* the administrator's password
LookupIn ==
  [authz |-> {<< <<"Bearer", tok>> >> : tok \in tokens},
   xkey |-> {Null}, qkey |-> {Null}, param |-> {Null},
   email |-> {<<e>> : e \in Emails}, password |-> {<<AdminPassword>>}]

NextLookupPair ==
  \/ \E r \in Pair : ReceiveFrom(r, LookupRoutes, LookupIn)
  \/ \E r \in Pair : AuthMw(r)
  \/ \E r \in Pair : AuthSelect(r)
  \/ \E r \in Pair : Handler(r)
  \/ \E r \in Pair : LoginFind(r)
  \/ \E r \in Pair : LoginCompare(r)
  \/ \E r \in Pair : LoginUpdate(r)
  \/ RemoveUser(AdminId)
  \/ Tick

SpecLookupPair == InitIssuedPair /\ [][NextLookupPair]_vars

\* ------------------------------------------------ register, login, /me
RegEmail == "a@x.com"

RegPassword == "pw12345678"

AccountRoutes == { <<"register">>, <<"login">>, <<"auth", "me">> }

\* a client that registers and logs in with one email, with the right or a
\* wrong password, and sends the tokens it was handed
AccountIn ==
  [authz |-> {<< <<"Bearer", tok>> >> : tok \in tokens},
   xkey |-> {Null}, qkey |-> {Null}, param |-> {Null},
   email |-> {<<RegEmail>>}, password |-> {<<RegPassword>>, <<"wrong">>}]

\* the rows that registration wrote
Registered == {u \in users : u.id # AdminId}

NextAccount ==
  \/ \E r \in Reqs : ReceiveFrom(r, AccountRoutes, AccountIn)
  \/ \E r \in Reqs : RegisterFind(r)
  \/ \E r \in Reqs : RegisterInsert(r)
  \/ \E r \in Reqs : LoginFind(r)
  \/ \E r \in Reqs : LoginCompare(r)
  \/ \E r \in Reqs : LoginUpdate(r)
  \/ \E r \in Reqs : AuthMw(r)
  \/ \E r \in Reqs : AuthSelect(r)
  \/ \E r \in Reqs : MeFind(r)
  \/ \E u \in Registered : \E b \in BOOLEAN : SetActive(u.id, b)
  \/ Tick

SpecAccount == Init /\ [][NextAccount]_vars

\* ------------------------------------------------------- the catalogue
\* a registered customer
Customer ==
  [id |-> AdminId + 1, email |-> RegEmail, password |-> HashPassword(RegPassword),
   role |-> "customer", isActive |-> TRUE, lastLoginAt |-> <<0>>]

\* the state after the administrator and the customer logged in at time 0
InitCatalog ==
  /\ now = 0
  /\ products = SeedProducts
  /\ categories = SeedCategories
  /\ users = {[AdminUser EXCEPT !.lastLoginAt = <<0>>], Customer}
  /\ apiKeys = InitKeys
  /\ tokens = {GenerateToken(AdminUser, 0), GenerateToken(Customer, 0)}
  /\ req = [r \in Reqs |-> IdleReq]

\* requests to the paths of productsRouter, to a slug, to ids and to paths
\* no handler is registered for, with the bodies of the write handlers; the
\* Authorization header is absent, an issued token or a tampered one
CatalogIn ==
  [target |-> { <<"GET", <<>>>>, <<"GET", <<"categories">>>>,
                <<"GET", <<"headphones">>>>, <<"GET", <<"p-1">>>>,
                <<"PUT", <<"categories">>>>,
                <<"GET", <<"admin", "products">>>>, <<"POST", <<"admin", "products">>>>,
                <<"PUT", <<"admin", "products", "p-1">>>>,
                <<"PUT", <<"admin", "products", "headphones">>>>,
                <<"DELETE", <<"admin", "products", "p-1">>>>,
                <<"DELETE", <<"admin", "products", "p-2">>>>,
                <<"GET", <<"admin", "categories">>>>,
                <<"POST", <<"admin", "categories">>>> },
   authz |-> {Null} \cup {<< <<"Bearer", tok>> >> : tok \in tokens}
                    \cup {<< <<"Bearer", Tamper(tok)>> >> : tok \in tokens},
   product |-> { <<[slug |-> "gadget", name |-> "Gadget", isActive |-> TRUE]>>,
                 <<[slug |-> "categories", name |-> "Categories", isActive |-> TRUE]>> },
   patch |-> { <<[isActive |-> FALSE]>>, <<[isActive |-> TRUE]>> },
   category |-> { <<[slug |-> "garden", name |-> "Garden", sortOrder |-> 1,
                     isActive |-> TRUE]>> }]

\* (no chain the router builds lets a request reach GetCategories: the
\* handler of /:identifier stands before it and always answers)
NextCatalog ==
  \/ \E r \in Reqs : ReceiveAt(r, CatalogIn)
  \/ \E r \in Reqs : AuthMw(r)
  \/ \E r \in Reqs : AuthSelect(r)
  \/ \E r \in Reqs : RoleGate(r)
  \/ \E r \in Reqs : NotFound(r)
  \/ \E r \in Reqs : GetProducts(r)
  \/ \E r \in Reqs : GetProduct(r)
  \/ \E r \in Reqs : AdminGetProducts(r)
  \/ \E r \in Reqs : CreateProduct(r)
  \/ \E r \in Reqs : UpdateProduct(r)
  \/ \E r \in Reqs : DeleteProduct(r)
  \/ \E r \in Reqs : CreateCategory(r)
  \/ \E b \in BOOLEAN : SetActive(AdminId, b)
  \/ Tick

SpecCatalog == InitCatalog /\ [][NextCatalog]_vars

\* ----------------------------------------------- key administration
\* a member of staff
StaffEmail == "s@x.com"

Staff ==
  [id |-> AdminId + 2, email |-> StaffEmail, password |-> HashPassword(RegPassword),
   role |-> "staff", isActive |-> TRUE, lastLoginAt |-> <<0>>]

\* the state after the administrator, the member of staff and the customer
\* logged in at time 0
InitKeyAdmin ==
  /\ now = 0
  /\ products = SeedProducts
  /\ categories = SeedCategories
  /\ users = {[AdminUser EXCEPT !.lastLoginAt = <<0>>], Customer, Staff}
  /\ apiKeys = InitKeys
  /\ tokens = {GenerateToken(AdminUser, 0), GenerateToken(Customer, 0), GenerateToken(Staff, 0)}
  /\ req = [r \in Reqs |-> IdleReq]

\* requests to the four writing handlers of apiKeysRouter, for stored keys,
\* the created key and a key that does not exist; the Authorization header is
\* absent, an issued token, or the customer's token altered to role admin
KeyAdminIn ==
  [routes |-> KeyAdminRoutes,
   authz |-> {Null} \cup {<< <<"Bearer", tok>> >> : tok \in tokens}
                    \cup {<< <<"Bearer", Tamper(tok)>> >> :
                            tok \in {t \in tokens : t.claims.role = "customer"}},
   param |-> [updateKey |-> {<<1>>, <<NewKeyId>>}, deleteKey |-> {<<2>>, <<9>>},
              regenerate |-> {<<3>>}],
   create |-> { <<[name |-> "n", description |-> Null, expiresAt |-> Null]>> },
   patch |-> { <<[name |-> "renamed"]>> }]

\* a client that holds the secret of one of the stored keys
KeyAdminHeld ==
  [authz |-> {Null}, xkey |-> {<<"zk_b">>}, qkey |-> {Null},
   param |-> {Null}, email |-> {Null}, password |-> {Null}]

NextKeyAdmin ==
  \/ \E r \in Reqs : ReceiveKeyAdmin(r, KeyAdminIn)
  \/ \E r \in Reqs : ReceiveFrom(r, {<<"apiKey", "handler">>}, KeyAdminHeld)
  \/ \E r \in Reqs : AuthMw(r)
  \/ \E r \in Reqs : AuthSelect(r)
  \/ \E r \in Reqs : RoleGate(r)
  \/ \E r \in Reqs : CreateKey(r)
  \/ \E r \in Reqs : UpdateKey(r)
  \/ \E r \in Reqs : DeleteKey(r)
  \/ \E r \in Reqs : RegenIssue(r)
  \/ \E r \in Reqs : RegenWrite(r)
  \/ \E r \in Reqs : KeyMw(r)
  \/ \E r \in Reqs : KeySelect(r)
  \/ \E r \in Reqs : KeyCheck(r)
  \/ \E r \in Reqs : KeyUpdate(r)
  \/ \E r \in Reqs : Handler(r)
  \/ \E b \in BOOLEAN : SetActive(Staff.id, b)
  \/ Tick

SpecKeyAdmin == InitKeyAdmin /\ [][NextKeyAdmin]_vars

\* ------------------------------------------------- reissuing a token
\* auth.post('/refresh', authMiddleware, ...)
RefreshRoutes == { <<"auth", "refresh">> }

\* the administrator's client sends the tokens it was handed
RefreshIn ==
  [authz |-> {<< <<"Bearer", tok>> >> : tok \in tokens},
   xkey |-> {Null}, qkey |-> {Null}, param |-> {Null},
   email |-> {Null}, password |-> {Null}]

\* the administrator logs in and asks for new tokens, while the role and the
\* isActive column of the row are rewritten and the row is deleted
NextRefresh ==
  \/ \E r \in Reqs : ReceiveFrom(r, RefreshRoutes, RefreshIn)
  \/ \E r \in Reqs : AuthMw(r)
  \/ \E r \in Reqs : AuthSelect(r)
  \/ \E r \in Reqs : Refresh(r)
  \/ Login(AdminEmail, AdminPassword)
  \/ \E role \in Roles : SetRole(AdminId, role)
  \/ \E b \in BOOLEAN : SetActive(AdminId, b)
  \/ RemoveUser(AdminId)
  \/ Tick

SpecRefresh == Init /\ [][NextRefresh]_vars

\* ------------------------------- key requests beside key administration
InitKeyRace ==
  /\ now = 0
  /\ products = SeedProducts
  /\ categories = SeedCategories
  /\ users = {[AdminUser EXCEPT !.lastLoginAt = <<0>>]}
  /\ apiKeys = InitKeys
  /\ tokens = {GenerateToken(AdminUser, 0)}
  /\ req = [r \in Pair |-> IdleReq]

\* the administrator deactivates or deletes key 2 or regenerates key 1
KeyRaceIn ==
  [routes |-> { <<"auth", "staff", e>> : e \in {"updateKey", "deleteKey", "regenerate"} },
   authz |-> {<< <<"Bearer", tok>> >> : tok \in tokens},
   param |-> [updateKey |-> {<<2>>}, deleteKey |-> {<<2>>}, regenerate |-> {<<1>>}],
   create |-> {},
   patch |-> { <<[isActive |-> FALSE]>> }]

\* clients that hold the secrets of keys 1 and 2
KeyRaceHeld ==
  [authz |-> {Null}, xkey |-> {<<"zk_a">>, <<"zk_b">>}, qkey |-> {Null},
   param |-> {Null}, email |-> {Null}, password |-> {Null}]

\* one task serves key-authenticated requests while the other serves the
\* administrator's requests to apiKeysRouter
NextKeyRace ==
  \/ ReceiveFrom(1, {<<"apiKey", "handler">>}, KeyRaceHeld)
  \/ ReceiveKeyAdmin(2, KeyRaceIn)
  \/ \E r \in Pair : AuthMw(r)
  \/ \E r \in Pair : AuthSelect(r)
  \/ \E r \in Pair : RoleGate(r)
  \/ \E r \in Pair : UpdateKey(r)
  \/ \E r \in Pair : DeleteKey(r)
  \/ \E r \in Pair : RegenIssue(r)
  \/ \E r \in Pair : RegenWrite(r)
  \/ \E r \in Pair : KeyMw(r)
  \/ \E r \in Pair : KeySelect(r)
  \/ \E r \in Pair : KeyCheck(r)
  \/ \E r \in Pair : KeyUpdate(r)
  \/ \E r \in Pair : Handler(r)
  \/ Tick

SpecKeyRace == InitKeyRace /\ [][NextKeyRace]_vars

\* -------------------------------------------- two registrations at once
\* clients that register with one email, and with the administrator's
RegisterIn ==
  [authz |-> {Null}, xkey |-> {Null}, qkey |-> {Null}, param |-> {Null},
   email |-> {<<RegEmail>>, <<AdminEmail>>}, password |-> {<<RegPassword>>}]

NextRegisterPair ==
  \/ \E r \in Pair : ReceiveFrom(r, {<<"register">>}, RegisterIn)
  \/ \E r \in Pair : RegisterFind(r)
  \/ \E r \in Pair : RegisterInsert(r)
  \/ Tick

SpecRegisterPair == InitPair /\ [][NextRegisterPair]_vars

\* ------------------------------------------------- what a customer can do
SelfServiceRoutes ==
  { <<"register">>, <<"login">>, <<"auth", "me">>, <<"auth", "refresh">>,
    <<"auth", "staff", "handler">> }

\* a client registers (also with role and isActive in the body), logs in as
\* itself or as the administrator, and sends the tokens it was handed
SelfServiceIn ==
  [authz |-> {<< <<"Bearer", tok>> >> : tok \in tokens},
   email |-> {<<RegEmail>>, <<AdminEmail>>},
   password |-> {<<RegPassword>>, <<AdminPassword>>},
   extra |-> {Null, <<[role |-> "admin", isActive |-> FALSE]>>}]

NextSelfService ==
  \/ \E r \in Reqs : ReceiveAccount(r, SelfServiceRoutes, SelfServiceIn)
  \/ \E r \in Reqs : RegisterFind(r)
  \/ \E r \in Reqs : RegisterInsert(r)
  \/ \E r \in Reqs : LoginFind(r)
  \/ \E r \in Reqs : LoginCompare(r)
  \/ \E r \in Reqs : LoginUpdate(r)
  \/ \E r \in Reqs : AuthMw(r)
  \/ \E r \in Reqs : AuthSelect(r)
  \/ \E r \in Reqs : RoleGate(r)
  \/ \E r \in Reqs : Handler(r)
  \/ \E r \in Reqs : MeFind(r)
  \/ \E r \in Reqs : Refresh(r)
  \/ Tick

SpecSelfService == Init /\ [][NextSelfService]_vars

\* =============================================================== claims
\* the token a request presents (Null when the header yields none)
TokenOf(q) == ExtractTokenFromHeader(q.authz)

\* the gate of a chain: the allow-set the route was mounted with
AllowSet(q) ==
  IF Occurs("admin", q.route) THEN {"admin"} ELSE {"admin", "staff"}

HasGate(q) == Occurs("admin", q.route) \/ Occurs("staff", q.route)

HasError(q) == "error" \in DOMAIN q.body

HandlerInvoked(q) == Occurs("handler", q.trace)

\* C1: a request that arrives after the subject of its token was deactivated
\* (and while it stays deactivated) is answered 401; no identity is attached
\* and neither the next stage nor the handler is ever invoked for it.
C1_DeactivatedRejected ==
  \A r \in Reqs :
    req[r].inact =>
      /\ req[r].user = Null
      /\ ~Occurs("auth.next", req[r].trace)
      /\ ~HandlerInvoked(req[r])
      /\ (req[r].pc = "done" => req[r].status = 401 /\ HasError(req[r]))

\* the token still verifies, the subject was found inactive, the answer is 401
C1_Witness ==
  \E r \in Reqs :
    /\ req[r].inact
    /\ req[r].pc = "done"
    /\ req[r].status = 401
    /\ VerifyToken(TokenOf(req[r])[1], now).ok
    /\ Len(req[r].rows) = 1
    /\ ~req[r].rows[1].isActive

\* C2: the context holds a 'user' only after authMiddleware passed all four
\* checks (token present, token verified, subject found, subject active) and
\* an 'apiKey' only after apiKeyMiddleware passed all of its checks and its
\* last-used write landed; while a gate is still working, and on every path
\* on which it rejected or was cut short, nothing is attached.
C2_AttachOnlyAfterSuccess ==
  \A r \in Reqs :
    LET q == req[r] IN
    /\ q.user # Null =>
         /\ TokenOf(q) # Null
         /\ TokenOf(q)[1].mac = Mac(TokenOf(q)[1].claims)
         /\ q.payload = <<TokenOf(q)[1].claims>>
         /\ Len(q.rows) = 1
         /\ q.rows[1].id = q.payload[1].userId
         /\ q.rows[1].isActive
         /\ Occurs("auth.next", q.trace)
    /\ q.apiKey # Null =>
         /\ ~KeyAbsent(q.presented)
         /\ q.apiKey = q.keyRecord
         /\ q.apiKey[1].key = q.presented[1]
         /\ q.apiKey[1].isActive
         /\ (q.apiKey[1].expiresAt = Null \/ q.apiKey[1].expiresAt[1] >= q.evalAt[1])
         /\ Occurs("touched", q.trace)
         /\ Occurs("key.next", q.trace)
    /\ q.pc \in {"auth", "authSelect", "key", "keySelect", "keyCheck", "keyUpdate"} =>
         q.user = Null /\ q.apiKey = Null
    /\ q.cause \in {"MissingToken", "TokenInvalid", "TokenExpired", "SubjectNotFound",
                    "SubjectInactive", "StoreFailure", "Missing", "Invalid", "Expired"} =>
         q.user = Null /\ q.apiKey = Null

\* a gate was cut short after its checks had begun: the store failed under
\* the last-used write of a key that passed every check
C2_Witness ==
  \E r \in Reqs :
    /\ req[r].pc = "done"
    /\ req[r].cause = "StoreFailure"
    /\ Occurs("touch", req[r].trace)
    /\ req[r].keyRecord # Null
    /\ req[r].apiKey = Null

\* C4: behind the role gate mounted with allow-set R, a request with an
\* attached identity reaches the next stage iff identity.role is in R;
\* otherwise it is answered 403 with an error body and the handler never runs.
C4_RoleGate ==
  \A r \in Reqs :
    LET q == req[r] IN
    (HasGate(q) /\ Occurs("gate", q.trace) /\ q.user # Null) =>
      /\ Occurs("gate.next", q.trace) <=> q.user[1].role \in AllowSet(q)
      /\ q.user[1].role \notin AllowSet(q) =>
           /\ q.pc = "done"
           /\ q.status = 403
           /\ HasError(q)
           /\ ~HandlerInvoked(q)

\* allow-set {admin} turned a staff identity away
C4_Witness ==
  \E r \in Reqs :
    /\ Occurs("admin", req[r].route)
    /\ req[r].user # Null
    /\ req[r].user[1].role = "staff"
    /\ req[r].status = 403

\* C5: the role gate running on a context without identity answers 401
\* 'Authentication required' for every allow-set; never 403, never by an
\* exception, and the handler is not invoked.
C5_GateWithoutIdentity ==
  \A r \in Reqs :
    LET q == req[r] IN
    (HasGate(q) /\ Occurs("gate", q.trace) /\ q.user = Null) =>
      /\ q.pc = "done"
      /\ q.status = 401
      /\ HasError(q)
      /\ q.body.error = "Authentication required"
      /\ ~Occurs("throw", q.trace)
      /\ ~HandlerInvoked(q)

C5_Witness ==
  \E r \in Reqs :
    /\ req[r].route = <<"admin", "handler">>
    /\ Occurs("gate", req[r].trace)
    /\ req[r].status = 401

\* C6: the role attached by authMiddleware is the role of the token's claims,
\* whatever role the store holds now, and the role gate decides by it.
C6_RoleFromClaims ==
  \A r \in Reqs :
    LET q == req[r] IN
    q.user # Null =>
      /\ q.user[1].role = TokenOf(q)[1].claims.role
      /\ q.user[1].id = TokenOf(q)[1].claims.userId
      /\ q.user[1].email = TokenOf(q)[1].claims.email
      /\ (HasGate(q) /\ Occurs("gate", q.trace)) =>
           (Occurs("gate.next", q.trace) <=> TokenOf(q)[1].claims.role \in AllowSet(q))

\* the stored role had changed to customer, the admin token still passed
\* the admin-only gate
C6_Witness ==
  \E r \in Reqs :
    /\ req[r].user # Null
    /\ req[r].rows[1].role = "customer"
    /\ TokenOf(req[r])[1].claims.role = "admin"
    /\ Occurs("admin", req[r].route)
    /\ HandlerInvoked(req[r])

\* the key gate let the request through
KeyAccepted(q) == Occurs("key.next", q.trace)

\* a request whose key lookup was answered and whose outcome the key gate
\* decided on the record alone (no store failure, no failing handler)
KeyEvaluated(q) ==
  /\ q.evalAt # Null
  /\ q.pc \in {"handler", "done"}
  /\ q.cause \notin {"StoreFailure"}

\* C3: a request presenting K.key and evaluated at time now is accepted iff
\* K.isActive and (K.expiresAt is unset or K.expiresAt > now); at exactly
\* now = K.expiresAt it is rejected.
C3_UsableIff ==
  \A r \in Reqs : \A K \in apiKeys :
    LET q == req[r] IN
    (KeyEvaluated(q) /\ q.presented = <<K.key>>) =>
      (KeyAccepted(q) <=>
         (K.isActive /\ (K.expiresAt = Null \/ K.expiresAt[1] > q.evalAt[1])))

\* C7: the checks of authMiddleware run in the order extract, verify,
\* look up, check active, and stop at the first failure: no store read is
\* issued when the header yields no token or the token does not verify, and
\* the active flag is examined only for a subject that was found.
AuthOrder == <<"extract", "verify", "lookup", "active", "attach", "auth.next">>

C7_ChecksInOrder ==
  \A r \in Reqs :
    LET q == req[r] IN
    (q.route # <<>> /\ q.route[1] = "auth") =>
      /\ \A i \in 1..Len(q.trace) : i <= Len(AuthOrder) => q.trace[i] = AuthOrder[i]
      /\ TokenOf(q) = Null => ~Occurs("verify", q.trace) /\ ~Occurs("lookup", q.trace)
      /\ (TokenOf(q) # Null /\ TokenOf(q)[1].mac # Mac(TokenOf(q)[1].claims)) =>
           ~Occurs("lookup", q.trace)
      /\ q.cause \in {"MissingToken", "TokenInvalid", "TokenExpired"} =>
           /\ ~Occurs("lookup", q.trace)
           /\ q.pc = "done"
           /\ q.rows = Null
      /\ Occurs("active", q.trace) => Len(q.rows) = 1
      /\ q.cause = "SubjectNotFound" => ~Occurs("active", q.trace)

\* an expired token ended the request before any store read
C7_Witness ==
  \E r \in Reqs :
    /\ req[r].pc = "done"
    /\ req[r].cause = "TokenExpired"
    /\ req[r].trace = <<"extract", "verify">>

\* C8: missing token, invalid token, expired token, subject not found and
\* subject inactive each end the request with 401 and an 'error' body, and
\* the next stage is not invoked.
C8_AuthFailuresAre401 ==
  \A r \in Reqs :
    LET q == req[r] IN
    /\ q.cause \in {"MissingToken", "TokenInvalid", "TokenExpired",
                    "SubjectNotFound", "SubjectInactive"} =>
         /\ q.pc = "done"
         /\ q.status = 401
         /\ HasError(q)
         /\ ~Occurs("auth.next", q.trace)
         /\ ~HandlerInvoked(q)
    /\ (q.pc = "done" /\ q.route[1] = "auth" /\
        (\/ TokenOf(q) = Null
         \/ TokenOf(q)[1].mac # Mac(TokenOf(q)[1].claims)
         \/ (Occurs("lookup", q.trace) /\ q.cause # "StoreFailure" /\
             (Len(q.rows) = 0 \/ ~q.rows[1].isActive)))) =>
         /\ q.status = 401
         /\ HasError(q)
         /\ q.cause \in {"MissingToken", "TokenInvalid", "TokenExpired",
                         "SubjectNotFound", "SubjectInactive"}

\* the subject of a token that verifies is no longer in the store
C8_Witness ==
  \E r \in Reqs :
    /\ req[r].pc = "done"
    /\ req[r].cause = "SubjectNotFound"
    /\ users = {}
    /\ req[r].status = 401

\* C9: when the identity-store lookup of authMiddleware fails for a request
\* whose token verifies, the request ends with status 500.
C9_StoreFailureIs500 ==
  \A r \in Reqs :
    LET q == req[r] IN
    (q.pc = "done" /\ Occurs("lookup", q.trace) /\ q.cause = "StoreFailure") =>
      q.status = 500

\* C10: once authMiddleware has attached the identity and invoked the next
\* stage, the request is never answered with the gate's rejection
\* (401 'Invalid or expired token'), whatever the next stage does.
C10_AuthenticatedIsTerminal ==
  \A r \in Reqs :
    LET q == req[r] IN
    Occurs("auth.next", q.trace) =>
      ~(q.status = 401 /\ HasError(q) /\ q.body.error = "Invalid or expired token")

\* ------------------------------------------------ the key gate's verdicts
\* the record the key gate read had passed its expiry time when it was checked
ReadExpired(q) ==
  /\ q.evalAt # Null
  /\ q.keyRecord # Null
  /\ q.keyRecord[1].expiresAt # Null
  /\ q.keyRecord[1].expiresAt[1] < q.evalAt[1]

\* C11: a request presenting an active key whose expiresAt lies in the past
\* is answered 401 'API key has expired'; the handler is not invoked and the
\* request does not write lastUsedAt.
C11_ExpiredRejected ==
  \A r \in Reqs :
    LET q == req[r] IN
    ReadExpired(q) =>
      /\ q.pc = "done"
      /\ q.status = 401
      /\ q.body = [error |-> "API key has expired"]
      /\ ~HandlerInvoked(q)
      /\ ~Occurs("touch", q.trace)
      /\ ~Occurs("touched", q.trace)
      /\ q.touch = Null

C11_Witness ==
  \E r \in Reqs : \E K \in apiKeys :
    /\ ReadExpired(req[r])
    /\ req[r].keyRecord[1].id = K.id
    /\ K.isActive
    /\ K.lastUsedAt = Null
    /\ req[r].cause = "Expired"

\* C12: a request presenting the secret of a key whose isActive is false is
\* answered 401 'Invalid API key' whatever the key's expiresAt is (unset,
\* future or past); it is never answered as expired.
C12_InactiveIsInvalid ==
  \A r \in Reqs : \A K \in apiKeys :
    LET q == req[r] IN
    (q.evalAt # Null /\ q.presented = <<K.key>> /\ ~K.isActive) =>
      /\ q.pc = "done"
      /\ q.status = 401
      /\ q.body = [error |-> "Invalid API key"]
      /\ q.cause = "Invalid"
      /\ ~KeyAccepted(q)

C12_Witness ==
  \E r \in Reqs : \E K \in apiKeys :
    /\ req[r].presented = <<K.key>>
    /\ ~K.isActive
    /\ K.expiresAt # Null
    /\ req[r].evalAt # Null
    /\ K.expiresAt[1] < req[r].evalAt[1]
    /\ req[r].status = 401
    /\ req[r].cause = "Invalid"

\* the X-API-Key header / the api_key parameter came with the request
Supplied(k) == k # Null

\* the request ran the first lines of the key gate
KeyRead(q) == Occurs("present", q.trace)

\* the rest of C13, whichever reading of "supplied" decides the header's part:
\* without a header the query parameter is the presented key, and with
\* neither the answer is 401 'API key is required' with no store lookup
C13_QueryAndMissing(q) ==
  /\ (~Supplied(q.xkey) /\ Supplied(q.qkey) /\ q.qkey[1] # "") =>
        q.presented = q.qkey
  /\ (~Supplied(q.xkey) /\ ~Supplied(q.qkey)) =>
        /\ q.status = 401
        /\ q.body = [error |-> "API key is required"]
        /\ q.presented = Null
        /\ ~Occurs("keyLookup", q.trace)
        /\ q.keyRecord = Null

C14_TouchOnlyOnSuccess ==
  [][ /\ \A r \in Reqs :
           (KeyAccepted(req'[r]) /\ ~KeyAccepted(req[r])) =>
             \E K \in apiKeys :
               /\ <<K.key>> = req[r].presented
               /\ apiKeys' = (apiKeys \ {K}) \cup {[K EXCEPT !.lastUsedAt = req[r].touch]}
               /\ req[r].touch # Null
      /\ (apiKeys' # apiKeys) =>
           \E r \in Reqs : KeyAccepted(req'[r]) /\ ~KeyAccepted(req[r])
    ]_vars

C14_Witness ==
  \E r \in Reqs : \E K \in apiKeys :
    /\ KeyAccepted(req[r])
    /\ <<K.key>> = req[r].presented
    /\ K.lastUsedAt = req[r].touch
    /\ K.lastUsedAt # Null
    /\ \E J \in apiKeys : J.isActive /\ J.id # K.id /\ J.lastUsedAt = Null

\* ------------------------------------------------ concurrent use of a key
\* section 3 of the data model: the key is usable at time t
UsableAt(K, t) == K.isActive /\ (K.expiresAt = Null \/ K.expiresAt[1] > t)

\* the requests in service that presented K and had it checked while usable
UsersOf(K) ==
  {r \in Pair : /\ req[r].presented = <<K.key>>
                /\ req[r].evalAt # Null
                /\ UsableAt(K, req[r].evalAt[1])}

\* the next step of request task r
StepOf(r) == KeyMw(r) \/ KeySelect(r) \/ KeyCheck(r) \/ KeyUpdate(r) \/ Handler(r)

\* C15: with two requests in service at once that present the same usable
\* key, each is let through unless the store fails it, none ever waits for
\* the other, and when both have finished lastUsedAt is the time written by
\* one of them while every other field of the record is as before.
C15_ConcurrentUse ==
  /\ \A r \in Pair : req[r].pc \notin {"idle", "done"} => ENABLED StepOf(r)
  /\ \A K \in apiKeys :
       /\ \A r \in UsersOf(K) :
            (req[r].pc = "done" /\ req[r].cause # "StoreFailure") => KeyAccepted(req[r])
       /\ (UsersOf(K) = Pair /\ \A r \in Pair : req[r].pc = "done" /\ KeyAccepted(req[r])) =>
            /\ K.lastUsedAt \in {req[r].touch : r \in Pair}
            /\ [K EXCEPT !.lastUsedAt = Null] \in InitKeys

\* the earlier of two overlapping requests wrote last: the later time is lost
C15_Witness ==
  \E K \in apiKeys :
    /\ UsersOf(K) = Pair
    /\ \A r \in Pair : req[r].pc = "done" /\ KeyAccepted(req[r]) /\ req[r].status = 200
    /\ req[1].touch[1] < req[2].touch[1]
    /\ K.lastUsedAt = req[1].touch

\* -------------------------------------------- what a rejected caller sees
\* the lookup of the presented value found no active record
ReadNothing(q) == q.evalAt # Null /\ q.keyRecord = Null

\* what the caller receives
Seen(q) == <<q.status, q.body>>

\* C18: the answer to a request whose key was found active but expired has
\* the same status and the same body as the answer to a request whose key
\* value matched no active record.
C18_ExpiredLooksInvalid ==
  \A r1 \in Pair : \A r2 \in Pair :
    (/\ req[r1].pc = "done" /\ ReadExpired(req[r1])
     /\ req[r2].pc = "done" /\ ReadNothing(req[r2])) =>
       Seen(req[r1]) = Seen(req[r2])

\* --------------------------------------------------------- regeneration
\* secrets the record that now holds k held before its regenerations
RECURSIVE Former(_)
Former(k) ==
  LET prev == {v \in DOMAIN Fresh : Fresh[v] = k}
  IN  prev \cup UNION {Former(v) : v \in prev}

\* v was the secret of a stored key and was replaced by a regeneration
Replaced(v) == \E K \in apiKeys : v \in Former(K.key)

\* C16: once a regeneration of K has completed, a request that starts
\* afterwards and presents a secret K held before is answered 401 'Invalid
\* API key'; one that presents the new secret is let through if K is active
\* and unexpired.
C16_OldSecretInvalid ==
  \A r \in Reqs :
    LET q == req[r] IN
    /\ (q.evalAt # Null /\ Replaced(q.presented[1])) =>
          /\ q.pc = "done"
          /\ q.status = 401
          /\ q.body = [error |-> "Invalid API key"]
          /\ ~KeyAccepted(q)
    /\ \A K \in apiKeys :
         (/\ KeyEvaluated(q)
          /\ q.presented = <<K.key>>
          /\ Former(K.key) # {}
          /\ UsableAt(K, q.evalAt[1])) => KeyAccepted(q)

\* the old secret of a regenerated, still usable key was presented and refused
C16_Witness ==
  \E r \in Reqs : \E K \in apiKeys :
    /\ req[r].presented # Null
    /\ req[r].presented[1] \in Former(K.key)
    /\ K.isActive
    /\ req[r].evalAt # Null
    /\ UsableAt(K, req[r].evalAt[1])
    /\ K.lastUsedAt # Null
    /\ req[r].status = 401

\* C17: a regeneration that succeeds replaces key and updatedAt of the record
\* with the given id and leaves its id, isActive, expiresAt, lastUsedAt, name,
\* description and createdBy, and every other record, as they were; for an id
\* that no record has the answer is 404 and nothing changes.
C17_RegenerateFrame ==
  [][ \A r \in Reqs :
        (req[r].pc = "regenWrite" /\ req'[r].pc = "done") =>
          LET id == req[r].param[1]
              q == req'[r]
          IN  /\ q.status = 200 =>
                   \E K \in KeysById(id) :
                     /\ q.body.data.key # K.key
                     /\ q.body.data.key \notin {a.key : a \in apiKeys}
                     /\ apiKeys' = (apiKeys \ {K}) \cup
                                     {[K EXCEPT !.key = q.body.data.key,
                                                !.updatedAt = req[r].stamp[1]]}
              /\ q.status # 200 => apiKeys' = apiKeys
              /\ (KeysById(id) = {} /\ q.cause # "StoreFailure") =>
                   /\ q.status = 404
                   /\ q.body = [error |-> "API key not found"]
              /\ (KeysById(id) # {} /\ q.cause # "StoreFailure") => q.status = 200
    ]_vars

\* a used, expiring key got its new secret at a later time than its creation
C17_Witness ==
  \E r \in Reqs : \E K \in apiKeys :
    /\ req[r].pc = "done"
    /\ req[r].route # <<>>
    /\ Endpoint(req[r].route) = "regenerate"
    /\ req[r].status = 200
    /\ req[r].param = <<K.id>>
    /\ K.key = req[r].body.data.key
    /\ Former(K.key) # {}
    /\ K.lastUsedAt # Null
    /\ K.expiresAt # Null
    /\ K.updatedAt > 0

\* ------------------------------------------------- outage or no such user
\* the identity lookup of the request threw
LookupThrew(q) ==
  IF q.route = <<"login">> THEN Occurs("find.throw", q.trace)
  ELSE Occurs("auth", q.route) /\ q.cause = "StoreFailure"

\* the identity lookup of the request answered with no row
LookupEmpty(q) ==
  IF q.route = <<"login">> THEN Occurs("find.none", q.trace)
  ELSE Occurs("auth", q.route) /\ q.cause = "SubjectNotFound"

\* C19: for login and for authMiddleware, the answer to a request whose
\* identity lookup failed has the same status and the same body as the answer
\* to a request of the same kind whose lookup found no user.
C19_OutageLooksLikeNoUser ==
  \A r1 \in Pair : \A r2 \in Pair :
    (/\ req[r1].pc = "done" /\ req[r2].pc = "done"
     /\ req[r1].route = req[r2].route
     /\ LookupThrew(req[r1])
     /\ LookupEmpty(req[r2])) =>
       Seen(req[r1]) = Seen(req[r2])

\* ------------------------------------------- register, login, /me, 401
\* the request went to this handler and was answered
Answered(q, endpoint) ==
  q.pc = "done" /\ q.route # <<>> /\ Endpoint(q.route) = endpoint

\* the registered row whose credentials the request carries
Holder(q) ==
  {u \in Registered : /\ q.email = <<u.email>>
                      /\ ComparePassword(q.password[1], u.password)}

\* C20: a registration that succeeds leaves a row for which login with the
\* same email and password returns a token; /me with an accepted token
\* returns the identity of the token's subject without a password field; and
\* /me with the token of a subject that was deactivated is answered 401.
C20_RegisterLoginMe ==
  \A r \in Reqs :
    LET q == req[r] IN
    /\ (Answered(q, "register") /\ q.status = 201) =>
          /\ Holder(q) # {}
          /\ "password" \notin DOMAIN q.body.user
          /\ \A u \in Holder(q) : q.body.user.id = u.id /\ u.role = "customer"
    /\ (/\ Answered(q, "login")
        /\ Holder(q) # {}
        /\ q.cause \notin {"StoreFailure", "Deactivated"}) =>
          /\ q.status = 200
          /\ "token" \in DOMAIN q.body
          /\ q.body.token.mac = Mac(q.body.token.claims)
          /\ \A u \in Holder(q) : q.body.token.claims.userId = u.id
          /\ "password" \notin DOMAIN q.body.user
    /\ (Answered(q, "me") /\ Occurs("auth.next", q.trace) /\ q.cause # "StoreFailure") =>
          /\ q.status = 200
          /\ DOMAIN q.body = {"user"}
          /\ "password" \notin DOMAIN q.body.user
          /\ q.body.user.id = TokenOf(q)[1].claims.userId
          /\ q.body.user.email = TokenOf(q)[1].claims.email
    /\ (Answered(q, "me") /\ q.inact) =>
          /\ q.status = 401
          /\ ~HandlerInvoked(q)

\* the registered user logged in, was deactivated, and /me with the token
\* is refused
C20_Witness ==
  \E r \in Reqs : \E u \in Registered :
    /\ Answered(req[r], "me")
    /\ req[r].inact
    /\ TokenOf(req[r]) # Null
    /\ TokenOf(req[r])[1] \in tokens
    /\ TokenOf(req[r])[1].claims.userId = u.id
    /\ u.email = RegEmail
    /\ u.lastLoginAt # Null
    /\ ~u.isActive
    /\ req[r].status = 401
    /\ req[r].body = [error |-> "User not found or inactive"]

\* ------------------------------------------ the admin part of the catalogue
\* the handlers registered below /admin, and those of them that write
AdminEndpoints ==
  {"adminGetProducts", "createProduct", "updateProduct", "deleteProduct", "createCategory"}

AdminWriters == AdminEndpoints \ {"adminGetProducts"}

\* the request is at, or went through, a handler registered below /admin
AtAdminHandler(q) ==
  q.pc \in AdminEndpoints \/ \E e \in AdminEndpoints : Occurs(e, q.trace)

\* the position of the first x in seq (0 if there is none)
FirstAt(x, seq) ==
  IF Occurs(x, seq) THEN CHOOSE i \in 1..Len(seq) : seq[i] = x /\ \A j \in 1..(i - 1) : seq[j] # x
  ELSE 0

\* the session gate and then the staff gate let the request through: it
\* carries an issued, untampered token with role admin or staff whose subject
\* was not deactivated when the request arrived
PassedBothGates(q) ==
  /\ Occurs("auth.next", q.trace) /\ Occurs("gate.next", q.trace)
  /\ FirstAt("auth.next", q.trace) < FirstAt("gate.next", q.trace)
  /\ TokenOf(q) # Null
  /\ TokenOf(q)[1].mac = Mac(TokenOf(q)[1].claims)
  /\ TokenOf(q)[1].claims.role \in {"admin", "staff"}
  /\ q.user # Null
  /\ q.user[1].role \in {"admin", "staff"}
  /\ ~q.inact

\* C21: the write handlers of productsRouter and the admin listing run only
\* for requests that passed authMiddleware and then requireStaff, and only a
\* step of such a request changes the products or the categories table.
C21_AdminBehindGates ==
  [][ /\ \A r \in Reqs : AtAdminHandler(req'[r]) => PassedBothGates(req'[r])
      /\ (products' # products \/ categories' # categories) =>
           \E r \in Reqs : /\ req[r].pc \in AdminWriters
                           /\ req'[r].pc = "done"
                           /\ PassedBothGates(req[r])
    ]_vars

\* a staff request changed the table, and a customer's request for the same
\* was refused
C21_Witness ==
  \E r \in Reqs :
    /\ products # SeedProducts
    /\ categories # SeedCategories
    /\ req[r].pc = "done"
    /\ Occurs("createProduct", req[r].route)
    /\ TokenOf(req[r]) # Null
    /\ TokenOf(req[r])[1].claims.role = "customer"
    /\ req[r].status = 403
    /\ ~HandlerInvoked(req[r])

\* ------------------------------------------------------ GET /categories
\* C30: a GET request for /categories that the store serves is answered by
\* the categories listing handler, with the active categories ordered by
\* sortOrder and then name, and not by the single-product handler.
C30_CategoriesListed ==
  \A r \in Reqs :
    LET q == req[r] IN
    (/\ q.pc = "done"
     /\ q.method = "GET"
     /\ q.path = <<"categories">>
     /\ q.cause # "StoreFailure") =>
       /\ Occurs("getCategories", q.trace)
       /\ ~Occurs("getProduct", q.trace)
       /\ q.status = 200
       /\ q.body = [categories |-> OrderCategories({a \in categories : a.isActive})]

\* ------------------------------------------------- who manages API keys
\* the handlers of apiKeysRouter that write, at the step of their statement
KeyWriters == {"createKey", "updateKey", "deleteKey", "regenWrite"}

\* a key record without the column the key gate writes
Managed(a) == [f \in DOMAIN a \ {"lastUsedAt"} |-> a[f]]

\* C22: a key record is created, updated, regenerated or deleted only by a
\* step of a request that passed authMiddleware and then requireStaff; a
\* created record names that request's identity as its creator; and an
\* update, regeneration or deletion by such a request that the store serves
\* succeeds on any stored key, whoever created it.
C22_KeysManagedByStaff ==
  [][ /\ {Managed(a) : a \in apiKeys'} # {Managed(a) : a \in apiKeys} =>
           \E r \in Reqs : /\ req[r].pc \in KeyWriters
                           /\ req'[r].pc = "done"
                           /\ PassedBothGates(req[r])
                           /\ \A a \in apiKeys' :
                                KeysById(a.id) = {} => a.createdBy = req[r].user[1].id
      /\ \A r \in Reqs :
           (/\ req[r].pc \in KeyWriters \ {"createKey"}
            /\ req'[r].pc = "done"
            /\ req'[r].cause # "StoreFailure"
            /\ KeysById(req[r].param[1]) # {}) =>
              /\ PassedBothGates(req[r])
              /\ req'[r].status = 200
    ]_vars

\* the member of staff created a key, and then changed a key that the
\* administrator had created
C22_Witness ==
  \E r \in Reqs :
    /\ \E a \in apiKeys : a.id = NewKeyId /\ a.createdBy = Staff.id
    /\ req[r].pc = "done"
    /\ Endpoint(req[r].route) = "updateKey"
    /\ req[r].user # Null
    /\ req[r].user[1].id = Staff.id
    /\ req[r].status = 200
    /\ req[r].body.data.createdBy = AdminId
    /\ req[r].body.data.name = "renamed"

\* ------------------------------------------------------ deleting a key
\* the request's step is the delete statement of DELETE /:id for this id
DeleteStep(r, id) ==
  /\ req[r].pc = "deleteKey"
  /\ req[r].param = <<id>>
  /\ req'[r].pc = "done"

\* C23: when DELETE /:id succeeds for a stored key K, no record with K's id
\* is left, and none comes back; every later request that presents K's
\* secret is answered 401 'Invalid API key' and reaches no handler; and a
\* DELETE for an id that has no record is answered 404 'API key not found'
\* (unless the store fails) and changes nothing.
C23_HardDelete ==
  [][ /\ \A r \in Reqs : \A K \in apiKeys :
           (DeleteStep(r, K.id) /\ req'[r].status = 200) =>
              /\ \A a \in apiKeys' : a.id # K.id
              /\ req'[r].body = [message |-> "API key deleted successfully"]
      /\ \A K \in InitKeys :
           (\A a \in apiKeys : a.id # K.id) =>
              /\ \A a \in apiKeys' : a.id # K.id
              /\ \A r \in Reqs :
                   (req'[r].presented = <<K.key>> /\ req'[r].evalAt # Null) =>
                      /\ req'[r].pc = "done"
                      /\ req'[r].status = 401
                      /\ req'[r].body = [error |-> "Invalid API key"]
                      /\ ~KeyAccepted(req'[r])
              /\ \A r \in Reqs :
                   DeleteStep(r, K.id) =>
                      /\ apiKeys' = apiKeys
                      /\ req'[r].status \in {404, 500}
                      /\ req'[r].status = 404 =>
                           req'[r].body = [error |-> "API key not found"]
                      /\ req'[r].status = 500 => req'[r].cause = "StoreFailure"
    ]_vars

\* the key was deleted, its secret was then refused, and a second DELETE for
\* it was answered 404
C23_Witness ==
  \E r \in Reqs : \E K \in InitKeys :
    /\ \A a \in apiKeys : a.id # K.id
    /\ req[r].pc = "done"
    /\ Endpoint(req[r].route) = "deleteKey"
    /\ req[r].param = <<K.id>>
    /\ req[r].status = 404
    /\ PassedBothGates(req[r])

\* --------------------------------------------------- reissuing a token
\* the request's step is the read of /refresh
RefreshStep(r) == req[r].pc = "refresh" /\ req'[r].pc = "done"

\* C24: a token that /refresh returns is issued from the row of the token's
\* subject as it is stored when the handler reads it, so it carries the role
\* stored then and not the role of the old token; /refresh returns no token
\* when that row is absent or inactive at the read.
C24_RefreshFromStore ==
  [][ \A r \in Reqs :
        RefreshStep(r) =>
          LET userResult == SelectUserById(req[r].user[1].id) IN
          /\ "token" \in DOMAIN req'[r].body =>
               /\ req'[r].status = 200
               /\ Len(userResult) = 1
               /\ userResult[1].isActive
               /\ req'[r].body.token = GenerateToken(userResult[1], now)
               /\ req'[r].body.token.claims.role = userResult[1].role
          /\ (Len(userResult) = 0 \/ ~userResult[1].isActive) =>
               /\ "token" \notin DOMAIN req'[r].body
               /\ req'[r].status \in {404, 500}
               /\ tokens' = tokens
          /\ (Len(userResult) = 1 /\ userResult[1].isActive /\ req'[r].cause # "StoreFailure") =>
               "token" \in DOMAIN req'[r].body
    ]_vars

\* a token with role admin was exchanged for one with the role stored since
C24_Witness ==
  \E r \in Reqs :
    /\ req[r].pc = "done"
    /\ Endpoint(req[r].route) = "refresh"
    /\ req[r].status = 200
    /\ TokenOf(req[r])[1].claims.role = "admin"
    /\ req[r].user[1].role = "admin"
    /\ req[r].body.token.claims.role = "customer"
    /\ req[r].body.token.claims.userId = TokenOf(req[r])[1].claims.userId

\* ------------------------------ key requests beside key administration
\* C25: when apiKeyMiddleware calls the downstream handler, the value the
\* request presented is the secret of a stored record that is active and
\* that the gate's own expiry test does not find expired.
C25_UsableAtInvocation ==
  [][ \A r \in Pair :
        (~KeyAccepted(req[r]) /\ KeyAccepted(req'[r])) =>
          \E K \in apiKeys' :
            /\ <<K.key>> = req'[r].presented
            /\ K.isActive
            /\ ~KeyExpired(K, now)
    ]_vars

\* ------------------------------------------- two registrations at once
\* C26: no two identities have the same email, and a register request that
\* the store served without creating an identity (its email was taken, also
\* when it was taken by a registration running beside it) is answered 400
\* 'User already exists with this email' and hands out no token.
C26_TakenEmailIs400 ==
  /\ \A u \in users : \A v \in users : u.email = v.email => u = v
  /\ \A r \in Pair :
       LET q == req[r] IN
       (/\ q.pc = "done"
        /\ Endpoint(q.route) = "register"
        /\ q.cause # "StoreFailure"
        /\ q.status # 201) =>
          /\ q.status = 400
          /\ q.body = [error |-> "User already exists with this email"]

\* ------------------------------------------------ what a customer can do
\* the tokens a state holds: those clients keep, and the one in a response
TokensSeen ==
  tokens \cup {req[r].body.token : r \in {x \in Reqs : "token" \in DOMAIN req[x].body}}

\* C27: an identity that register created has role 'customer' and is active,
\* whatever the body held; register, login, /refresh and /me leave every
\* stored role as it is; a token issued for a registered identity carries
\* role 'customer', and a request that presents it never passes requireStaff.
C27_CustomersStayCustomers ==
  /\ \A u \in users :
       IF u.id = AdminId THEN u.role = "admin"
       ELSE u.role = "customer" /\ u.isActive
  /\ \A tok \in TokensSeen : tok.claims.userId # AdminId => tok.claims.role = "customer"
  /\ \A r \in Reqs :
       LET q == req[r] IN
       (TokenOf(q) # Null /\ TokenOf(q)[1].claims.userId # AdminId) =>
          /\ ~Occurs("gate.next", q.trace)
          /\ (q.pc = "done" /\ Endpoint(q.route) = "handler" /\ q.user # Null) =>
               q.status = 403

\* a registration created a customer, whose
\* token was then turned down by requireStaff
C27_Witness ==
  \E r \in Reqs : \E u \in Registered :
    /\ u.role = "customer"
    /\ req[r].pc = "done"
    /\ Endpoint(req[r].route) = "handler"
    /\ TokenOf(req[r])[1].claims.userId = u.id
    /\ req[r].status = 403
    /\ Occurs("gate", req[r].trace)

\* ------------------------------------------ the write before the handler
\* the step in which the last-used write of the request's key gate answers
TouchStep(r) == req[r].pc = "keyUpdate" /\ req'[r].pc # "keyUpdate"

\* C28: the last-used write completes before the key record is attached and
\* before the handler is called; when the write fails the request is answered
\* 500 'Authentication failed', no record is attached and the handler is not
\* called; the record attached on success is the record as it was read
\* before the write, with the lastUsedAt of before this request.
C28_WriteThenAttach ==
  [][ \A r \in Reqs :
        /\ (req'[r].apiKey # Null \/ HandlerInvoked(req'[r]) \/ KeyAccepted(req'[r])) =>
             /\ Occurs("touched", req'[r].trace)
             /\ FirstAt("touched", req'[r].trace) < FirstAt("attach", req'[r].trace)
             /\ FirstAt("attach", req'[r].trace) < FirstAt("key.next", req'[r].trace)
             /\ req'[r].apiKey # Null
        /\ TouchStep(r) =>
             IF req'[r].cause = "StoreFailure"
             THEN /\ req'[r].pc = "done"
                  /\ apiKeys' = apiKeys
                  /\ req'[r].status = 500
                  /\ req'[r].body = [error |-> "Authentication failed"]
                  /\ req'[r].apiKey = Null
                  /\ ~KeyAccepted(req'[r])
             ELSE /\ KeyAccepted(req'[r])
                  /\ req'[r].apiKey = req[r].keyRecord
                  /\ req'[r].apiKey[1] \in apiKeys
                  /\ \E K \in apiKeys' : /\ K.id = req'[r].apiKey[1].id
                                         /\ K.lastUsedAt = req[r].touch
    ]_vars

\* a handler ran for a key that was used before: the attached record holds
\* the time of the earlier use, the stored record the time of this one
C28_Witness ==
  \E r \in Reqs : \E K \in apiKeys :
    /\ HandlerInvoked(req[r])
    /\ req[r].apiKey # Null
    /\ K.id = req[r].apiKey[1].id
    /\ req[r].apiKey[1].lastUsedAt # Null
    /\ K.lastUsedAt # Null
    /\ K.lastUsedAt[1] > req[r].apiKey[1].lastUsedAt[1]

\* ---------------------------------------------------------------- login
\* the positions of a login request
LoginPcs == {"login", "loginCompare", "loginUpdate"}

\* the step of login request r in which it is answered
LoginAnswer(r) == req[r].pc \in LoginPcs /\ req'[r].pc = "done"

\* C29: login hands out a token only when it read a row with the email that
\* was active and whose password verifies, and only then writes lastLoginAt
\* (and nothing else); an unknown email, an inactive row (refused before the
\* password is looked at) and a wrong password are answered 401 without a
\* token and leave every row as it is.
C29_LoginOnlyOnSuccess ==
  [][ \A r \in Reqs :
        /\ (req[r].pc \in LoginPcs /\ req'[r].pc # req[r].pc /\ users' # users) =>
             /\ LoginAnswer(r)
             /\ req'[r].status = 200
             /\ users' = {IF u.id = req[r].rows[1].id
                          THEN [u EXCEPT !.lastLoginAt = req[r].stamp] ELSE u : u \in users}
        /\ LoginAnswer(r) =>
             LET q == req'[r] IN
             /\ "token" \in DOMAIN q.body =>
                  /\ q.status = 200
                  /\ q.rows # Null
                  /\ q.rows[1].email = q.email[1]
                  /\ q.rows[1].isActive
                  /\ ComparePassword(q.password[1], q.rows[1].password)
                  /\ q.body.token = GenerateToken(q.rows[1], now)
             /\ q.status # 200 =>
                  /\ "token" \notin DOMAIN q.body
                  /\ users' = users
                  /\ tokens' = tokens
             /\ (q.cause # "StoreFailure" /\ q.rows = Null) =>
                  Seen(q) = <<401, [error |-> "Invalid credentials"]>>
             /\ (q.cause # "StoreFailure" /\ q.rows # Null /\ ~q.rows[1].isActive) =>
                  /\ Seen(q) = <<401, [error |-> "Account is deactivated"]>>
                  /\ ~Occurs("compare", q.trace)
             /\ (/\ q.cause # "StoreFailure" /\ q.rows # Null /\ q.rows[1].isActive
                 /\ ~ComparePassword(q.password[1], q.rows[1].password)) =>
                  Seen(q) = <<401, [error |-> "Invalid credentials"]>>
    ]_vars

\* a login for a deactivated identity with a wrong password was refused as
\* deactivated, and the identity had logged in earlier
C29_Witness ==
  \E r \in Reqs : \E u \in Registered :
    /\ req[r].pc = "done"
    /\ Endpoint(req[r].route) = "login"
    /\ req[r].cause = "Deactivated"
    /\ req[r].password = <<"wrong">>
    /\ req[r].status = 401
    /\ u.email = req[r].email[1]
    /\ u.lastLoginAt # Null

====
